---------------------------- MODULE Spec2Model ----------------------------
(***************************************************************************)
(* A model of the agent-skills installer: the rules merge engine           *)
(* (src/src/config-merger.ts), component discovery (discovery.ts), the     *)
(* hierarchical browser (src/src/menu.ts), the installer                   *)
(* (src/src/installer.ts) and the CLI main flow (src/src/cli.ts).          *)
(*                                                                         *)
(* JSON values are tagged records, files are records holding their         *)
(* content, a file system is a function from paths (sequences of names)    *)
(* to nodes.  Every specification below uses the same variables; the ones  *)
(* a specification does not exercise stay at their idle value.             *)
(***************************************************************************)
EXTENDS Integers, Sequences, FiniteSets, TLC

VARIABLES
    dmTarget,     \* deepMerge: the target argument
    dmSource,     \* deepMerge: the source argument
    dmResult,     \* deepMerge: the returned object
    dmPc,         \* deepMerge: "ready" | "returned"
    sfs,          \* the file system the sources are read from
    tfs,          \* the file system of the install target
    opLog,        \* the mutating fs calls made so far and those that threw, in order
    mrSources,    \* config-merger: the ruleSources argument (paths in sfs)
    mrPre,        \* config-merger: the node at skillRulesPath when the call began
    mrReturn,     \* config-merger: what the call returned
    mrPc,         \* config-merger: "ready" | "returned"
    components,   \* discovery: what the discover call returned
    discPc,       \* discovery: "ready", or the call that returned
    selections,   \* install: the Selections argument
    results,      \* install: the InstallationResults being filled
    skillsByCategory, \* install: the Map of skill category to skills, in insertion order
    instIdx,      \* install: index of the next item of the running loop
    instCat,      \* install: index of the running entry of skillsByCategory
    instPre,      \* install: the target file system when install was called
    targetDir,    \* install: the targetDir argument
    instPc,       \* install: the statement install is at
    menuRoot,     \* menu: the root MenuItem interactiveMenu was given
    menuPath,     \* menu: state.path, the folders entered
    currentItems, \* menu: state.currentItems
    selectedIndex,\* menu: state.selectedIndex (0-based)
    selectedItems,\* menu: the Set of marked ids
    rawMode,      \* menu: whether stdin is in raw mode
    listening,    \* menu: whether handleInput is attached to stdin
    menuPc,       \* menu: "idle", "open", "resolved", "exited" or "crashed"
    toggleObs,    \* menu: what is remembered of the last toggles (observation only)
    location,     \* main: the install location chosen
    exitCode,     \* main: the exit code of the process, -1 while it runs
    mainPc,       \* main: the statement main is at
    prompts,      \* prompts: the checkbox prompts shown so far, with their answers
    cart          \* cart flow: the CartItems collected so far

dmVars == <<dmTarget, dmSource, dmResult, dmPc>>
fsVars == <<sfs, tfs, opLog>>
mrVars == <<mrSources, mrPre, mrReturn, mrPc>>
discVars == <<components, discPc>>
instVars ==
    <<selections, results, skillsByCategory, instIdx, instCat, instPre, targetDir,
      instPc>>
menuVars ==
    <<menuRoot, menuPath, currentItems, selectedIndex, selectedItems, rawMode,
      listening, menuPc, toggleObs>>
mainVars == <<location, exitCode, mainPc>>
promptVars == <<prompts, cart>>
vars ==
    <<dmVars, fsVars, mrVars, discVars, instVars, menuVars, mainVars, promptVars>>

(***************************************************************************)
(* Bounds of the model.                                                    *)
(***************************************************************************)
\* Numbers that occur as JSON scalars are 1..MaxNum.
MaxNum == 1
\* The longest ruleSources list passed to mergeAllRules.
MaxSources == 3

(***************************************************************************)
(* JSON values.                                                            *)
(***************************************************************************)
JUndef == [t |-> "undef"]
JNull == [t |-> "null"]
JNum(n) == [t |-> "num", v |-> n]
JBool(b) == [t |-> "bool", v |-> b]
\* A string is the sequence of its characters.
JStr(chars) == [t |-> "str", v |-> chars]
JArr(elems) == [t |-> "arr", v |-> elems]
\* A plain object is a function from its own keys to their values.
JObj(f) == [t |-> "obj", v |-> f]
EmptyObj == JObj(<<>>)

\* One-key and two-key object literals.
Obj1(k, x) == JObj([i \in {k} |-> x])
Obj2(k1, x1, k2, x2) == JObj([i \in {k1, k2} |-> IF i = k1 THEN x1 ELSE x2])

\* JavaScript truthiness of a value.
Truthy(x) ==
    CASE x.t \in {"undef", "null"} -> FALSE
      [] x.t = "num" -> x.v # 0
      [] x.t = "bool" -> x.v
      [] x.t = "str" -> Len(x.v) > 0
      [] OTHER -> TRUE

\* typeof x === 'object'
TypeofObject(x) == x.t \in {"null", "arr", "obj"}

\* Array.isArray(x)
IsArray(x) == x.t = "arr"

\* Object.keys(x): own enumerable string keys; indices for arrays and strings.
ObjectKeys(x) ==
    CASE x.t = "obj" -> DOMAIN x.v
      [] x.t \in {"arr", "str"} -> {ToString(i - 1) : i \in 1..Len(x.v)}
      [] OTHER -> {}

\* x[k]: the own property k of x, undefined when there is none.
Get(x, k) ==
    CASE x.t = "obj" -> IF k \in DOMAIN x.v THEN x.v[k] ELSE JUndef
      [] x.t = "arr" ->
            IF \E i \in 1..Len(x.v) : ToString(i - 1) = k
            THEN x.v[CHOOSE i \in 1..Len(x.v) : ToString(i - 1) = k]
            ELSE JUndef
      [] x.t = "str" ->
            IF \E i \in 1..Len(x.v) : ToString(i - 1) = k
            THEN JStr(<<x.v[CHOOSE i \in 1..Len(x.v) : ToString(i - 1) = k]>>)
            ELSE JUndef
      [] OTHER -> JUndef

\* Mutant of Spread: the result starts empty instead of as a copy of x.
SpreadNothing(x) == <<>>

\* { ...x }: a fresh plain object holding x's own enumerable properties.
Spread(x) == [k \in ObjectKeys(x) |-> Get(x, k)]

\* Mutant of BothPlainObjects: no key is merged recursively (a shallow merge).
BothPlainObjectsNever(targetValue, sourceValue) == FALSE

\* The test of deepMerge that sends a key into the recursion.
BothPlainObjects(targetValue, sourceValue) ==
    /\ Truthy(sourceValue)
    /\ TypeofObject(sourceValue)
    /\ ~IsArray(sourceValue)
    /\ Truthy(targetValue)
    /\ TypeofObject(targetValue)
    /\ ~IsArray(targetValue)

\* Mutant of ReplacedValue: two arrays are concatenated.
ReplacedValueConcat(targetValue, sourceValue) ==
    IF IsArray(targetValue) /\ IsArray(sourceValue)
    THEN JArr(targetValue.v \o sourceValue.v)
    ELSE sourceValue

\* What deepMerge stores at a key of the source outside the recursion.
ReplacedValue(targetValue, sourceValue) == sourceValue

RECURSIVE deepMerge(_, _)
deepMerge(target, source) ==
    LET result == Spread(target)
        keys == ObjectKeys(source)
        merged(key) ==
            LET sourceValue == Get(source, key)
                targetValue == Get(target, key)
            IN  IF BothPlainObjects(targetValue, sourceValue)
                THEN deepMerge(targetValue, sourceValue)
                ELSE ReplacedValue(targetValue, sourceValue)
    IN  JObj([key \in DOMAIN result \cup keys |->
                IF key \in keys THEN merged(key) ELSE result[key]])

(***************************************************************************)
(* The JSON objects deepMerge is exercised on: two keys, two levels.       *)
(***************************************************************************)
Keys == {"a", "b"}
Nums == {JNum(n) : n \in 1..MaxNum}
Arr1 == JArr(<<JNum(1)>>)
Arr21 == JArr(<<JNum(2), JNum(1)>>)
InnerLeaves == {JNull} \cup Nums
OuterLeaves == {JNull, Arr1, Arr21} \cup Nums
ObjectsOver(values) ==
    {JObj(f) : f \in UNION {[d -> values] : d \in SUBSET Keys}}
InnerObjects == ObjectsOver(InnerLeaves)
JsonObjects == ObjectsOver(OuterLeaves \cup InnerObjects)

DmInit ==
    /\ dmTarget \in JsonObjects
    /\ dmSource \in JsonObjects
    /\ dmResult = JUndef
    /\ dmPc = "ready"

DmIdle ==
    /\ dmTarget = EmptyObj
    /\ dmSource = EmptyObj
    /\ dmResult = JUndef
    /\ dmPc = "idle"

\* One call deepMerge(dmTarget, dmSource).
DeepMergeCall ==
    /\ dmPc = "ready"
    /\ dmResult' = deepMerge(dmTarget, dmSource)
    /\ dmPc' = "returned"
    /\ UNCHANGED <<dmTarget, dmSource, fsVars, mrVars, discVars, instVars, menuVars,
                   mainVars, promptVars>>

(***************************************************************************)
(* Files and file systems.                                                 *)
(***************************************************************************)
DirNode == [kind |-> "dir"]
FileNode(content) == [kind |-> "file", content |-> content]
\* Content of a text file (an instruction file), named by what it holds.
Text(body) == [type |-> "text", body |-> body]
\* Content that is JSON text: the value it parses to, and how it is laid out
\* ("raw": as its author wrote it, "pretty": as writeJsonFile writes it).
JsonText(fmt, value) == [type |-> "json", fmt |-> fmt, json |-> value]
\* Content that JSON.parse rejects.
Garbage == [type |-> "garbage"]
\* What a path holds when no file is there.
Missing == [type |-> "missing"]

join(dir, name) == Append(dir, name)
dirname(path) == SubSeq(path, 1, Len(path) - 1)
basename(path) == path[Len(path)]

\* fileExists / pathExists: access(path, F_OK) succeeds.
pathExists(fs, path) == path \in DOMAIN fs

IsDir(fs, path) == path \in DOMAIN fs /\ fs[path].kind = "dir"
IsFile(fs, path) == path \in DOMAIN fs /\ fs[path].kind = "file"

\* fs with path bound to node.
Put(fs, path, node) ==
    [p \in DOMAIN fs \cup {path} |-> IF p = path THEN node ELSE fs[p]]

\* JSON.parse(content): the value, or a throw.
JSONParse(content) ==
    IF content.type = "json"
    THEN [threw |-> FALSE, value |-> content.json]
    ELSE [threw |-> TRUE]

\* JSON.stringify(data, null, 2) + '\n'
JSONStringify(data) == JsonText("pretty", data)

\* readJsonFile: the parsed value, null when the file is missing, unreadable
\* or not JSON text.
readJsonFile(fs, path) ==
    IF ~pathExists(fs, path) THEN JNull
    ELSE IF ~IsFile(fs, path) THEN JNull
    ELSE LET parsed == JSONParse(fs[path].content)
         IN  IF parsed.threw THEN JNull ELSE parsed.value

\* x || {}
OrEmpty(x) == IF Truthy(x) THEN x ELSE EmptyObj

\* writeFile(path, text): throws when the parent is no directory or the path
\* is a directory.
CanWriteFile(fs, path) == IsDir(fs, dirname(path)) /\ ~IsDir(fs, path)

\* writeJsonFile(path, data) on a path that can be written.
writeJsonFile(fs, path, data) == Put(fs, path, FileNode(JSONStringify(data)))

WriteOp(path) == [op |-> "writeFile", path |-> path]

(***************************************************************************)
(* config-merger.ts                                                        *)
(***************************************************************************)
\* Whether mergeAllRules takes a source into the merge.
SourceMerged(rules) == Truthy(rules)

\* Mutant of MergeLoop: the accumulated document wins over a later source.
RECURSIVE MergeLoopFirstWins(_, _, _, _)
MergeLoopFirstWins(fs, existingRules, ruleSources, n) ==
    IF n = 0 THEN [rules |-> existingRules, count |-> 0]
    ELSE LET before == MergeLoopFirstWins(fs, existingRules, ruleSources, n - 1)
             rules == readJsonFile(fs, ruleSources[n])
         IN  IF SourceMerged(rules)
             THEN [rules |-> deepMerge(rules, before.rules),
                   count |-> before.count + 1]
             ELSE before

\* The loop of mergeAllRules over ruleSources[1..n]: the accumulated
\* document and the merge count.
RECURSIVE MergeLoop(_, _, _, _)
MergeLoop(fs, existingRules, ruleSources, n) ==
    IF n = 0 THEN [rules |-> existingRules, count |-> 0]
    ELSE LET before == MergeLoop(fs, existingRules, ruleSources, n - 1)
             rules == readJsonFile(fs, ruleSources[n])
         IN  IF SourceMerged(rules)
             THEN [rules |-> deepMerge(before.rules, rules),
                   count |-> before.count + 1]
             ELSE before

\* Mutant of ShouldWrite: the document is written back unconditionally.
ShouldWriteAlways(mergedCount) == TRUE

\* Whether mergeAllRules writes the document back.
ShouldWrite(mergedCount) == mergedCount > 0

\* mergeAllRules(skillRulesPath, ruleSources), sources read from src and the
\* document read from and written to dst: the target file system after the
\* call, the fs calls made, the return value, and whether the call threw.
mergeAllRules(src, dst, skillRulesPath, ruleSources) ==
    LET existingRules == OrEmpty(readJsonFile(dst, skillRulesPath))
        done == MergeLoop(src, existingRules, ruleSources, Len(ruleSources))
    IN  IF ~ShouldWrite(done.count)
        THEN [fs |-> dst, ops |-> <<>>, threw |-> FALSE, count |-> done.count]
        ELSE IF ~CanWriteFile(dst, skillRulesPath)
        THEN [fs |-> dst, ops |-> <<>>, threw |-> TRUE, count |-> done.count]
        ELSE [fs |-> writeJsonFile(dst, skillRulesPath, done.rules),
              ops |-> <<WriteOp(skillRulesPath)>>,
              threw |-> FALSE, count |-> done.count]

\* mergeAgentRules(skillRulesPath, agentRulesPath); mergeSkillRulesFragment
\* has the same body.
mergeAgentRules(src, dst, skillRulesPath, agentRulesPath) ==
    LET existingRules == OrEmpty(readJsonFile(dst, skillRulesPath))
        agentRules == readJsonFile(src, agentRulesPath)
    IN  IF ~Truthy(agentRules)
        THEN [fs |-> dst, ops |-> <<>>, threw |-> FALSE, ok |-> FALSE]
        ELSE IF ~CanWriteFile(dst, skillRulesPath)
        THEN [fs |-> dst, ops |-> <<>>, threw |-> TRUE, ok |-> FALSE]
        ELSE [fs |-> writeJsonFile(dst, skillRulesPath,
                                   deepMerge(existingRules, agentRules)),
              ops |-> <<WriteOp(skillRulesPath)>>,
              threw |-> FALSE, ok |-> TRUE]

mergeSkillRulesFragment(src, dst, skillRulesPath, fragmentPath) ==
    mergeAgentRules(src, dst, skillRulesPath, fragmentPath)

(***************************************************************************)
(* The rule files the merge engine is exercised on.                        *)
(***************************************************************************)
TargetDir == <<".claude">>
SkillRulesPath == join(TargetDir, "skill-rules.json")
RuleSourcePath(i) == <<"rules", ToString(i)>>

ObjAB1 == Obj1("a", Obj1("b", JNum(1)))
ObjAB2 == Obj1("a", Obj1("b", JNum(2)))
ObjAB3 == Obj1("a", Obj1("b", JNum(3)))
ObjA7 == Obj1("a", JNum(7))
ObjAC3B == Obj2("a", Obj1("c", JNum(3)), "b", Arr1)
Obj0 == Obj1("0", JNum(9))

\* What a rule source path may hold: nothing ("missing"), or a file.
SourceContents ==
    {Garbage} \cup
    {JsonText("raw", x) :
        x \in {JNull, JNum(5), JStr(<<"x">>), JArr(<<JNum(7)>>),
               ObjAB1, ObjAB2, ObjA7, ObjAC3B}}
SourceStates == {Missing} \cup SourceContents

\* What skill-rules.json may hold before a merge.
DestContents ==
    {Garbage} \cup
    {JsonText("raw", x) : x \in {ObjAB3, ObjA7, ObjAC3B, Obj0, JArr(<<JNum(7)>>)}}
DestStates == {Missing} \cup DestContents

\* The file system holding the rule sources listed in states.
RuleSourceFs(states) ==
    LET present == {i \in 1..Len(states) : states[i] # Missing}
    IN  [p \in {RuleSourcePath(i) : i \in present} |->
            FileNode(states[CHOOSE i \in present : RuleSourcePath(i) = p])]

\* The target directory, holding skill-rules.json in the given state.
RuleTargetFs(state) ==
    IF state = Missing
    THEN [p \in {TargetDir} |-> DirNode]
    ELSE [p \in {TargetDir, SkillRulesPath} |->
            IF p = TargetDir THEN DirNode ELSE FileNode(state)]

SourceLists == UNION {[1..n -> SourceStates] : n \in 0..MaxSources}

NodeAt(fs, path) == IF path \in DOMAIN fs THEN fs[path] ELSE [kind |-> "none"]

MrInit ==
    /\ \E states \in SourceLists :
          /\ sfs = RuleSourceFs(states)
          /\ mrSources = [i \in 1..Len(states) |-> RuleSourcePath(i)]
    /\ \E state \in DestStates : tfs = RuleTargetFs(state)
    /\ opLog = <<>>
    /\ mrPre = [kind |-> "none"]
    /\ mrReturn = [fn |-> "none"]
    /\ mrPc = "ready"

MrIdle ==
    /\ mrSources = <<>>
    /\ mrPre = [kind |-> "none"]
    /\ mrReturn = [fn |-> "none"]
    /\ mrPc = "idle"

\* A call mergeAllRules(SkillRulesPath, mrSources).
MergeAllRulesCall ==
    /\ mrPc = "ready"
    /\ LET r == mergeAllRules(sfs, tfs, SkillRulesPath, mrSources)
       IN  /\ tfs' = r.fs
           /\ opLog' = opLog \o r.ops
           /\ mrReturn' = [fn |-> "mergeAllRules", threw |-> r.threw,
                           count |-> r.count]
    /\ mrPre' = NodeAt(tfs, SkillRulesPath)
    /\ mrPc' = "returned"
    /\ UNCHANGED <<sfs, mrSources, dmVars, promptVars, discVars, instVars, menuVars, mainVars>>

\* A call mergeAgentRules(SkillRulesPath, p) for one of the source paths.
MergeAgentRulesCall ==
    /\ mrPc = "ready"
    /\ \E i \in 1..Len(mrSources) :
          LET r == mergeAgentRules(sfs, tfs, SkillRulesPath, mrSources[i])
          IN  /\ tfs' = r.fs
              /\ opLog' = opLog \o r.ops
              /\ mrReturn' = [fn |-> "mergeAgentRules", threw |-> r.threw,
                              ok |-> r.ok, source |-> mrSources[i]]
    /\ mrPre' = NodeAt(tfs, SkillRulesPath)
    /\ mrPc' = "returned"
    /\ UNCHANGED <<sfs, mrSources, dmVars, promptVars, discVars, instVars, menuVars, mainVars>>

\* A call mergeSkillRulesFragment(SkillRulesPath, p) for one of the source paths.
MergeSkillRulesFragmentCall ==
    /\ mrPc = "ready"
    /\ \E i \in 1..Len(mrSources) :
          LET r == mergeSkillRulesFragment(sfs, tfs, SkillRulesPath, mrSources[i])
          IN  /\ tfs' = r.fs
              /\ opLog' = opLog \o r.ops
              /\ mrReturn' = [fn |-> "mergeSkillRulesFragment", threw |-> r.threw,
                              ok |-> r.ok, source |-> mrSources[i]]
    /\ mrPre' = NodeAt(tfs, SkillRulesPath)
    /\ mrPc' = "returned"
    /\ UNCHANGED <<sfs, mrSources, dmVars, promptVars, discVars, instVars, menuVars, mainVars>>

(***************************************************************************)
(* File names.  Names are strings; the string functions the code applies   *)
(* to them are computed over the names that occur in the model.            *)
(***************************************************************************)
\* The stems of the .md files that occur.
MdStems == {"README", "SKILL", "a", "b", "ui-kit", "deploy", "reviewer"}
\* Every name a directory of the source tree may list, in readdir's order.
NameOrder ==
    <<"README.md", "SKILL.md", "a-rules.json", "a.md", "b", "b-rules.json",
      "b.md", "deploy.md", "notes.txt", "reviewer-rules.json", "reviewer.md",
      "shared", "skill-rules-fragment.json", "ui-kit", "ui-kit-rules.json",
      "ui-kit.md">>

\* f.endsWith('.md')
EndsWithMd(f) == \E stem \in MdStems : f = stem \o ".md"
\* basename(f, '.md') of a name that ends with .md
StripMd(f) == CHOOSE stem \in MdStems : f = stem \o ".md"
\* `${name}-rules.json`
RulesFileName(name) == name \o "-rules.json"

\* The proper and improper prefixes of the paths of a set.
AllPrefixes(paths) ==
    UNION {{SubSeq(p, 1, n) : n \in 1..Len(p)} : p \in paths}

\* The file system holding the directories dirs and the files of the
\* function files (path -> content), with every directory above them.
MkFs(dirs, files) ==
    [p \in AllPrefixes(dirs \cup DOMAIN files) |->
        IF p \in DOMAIN files THEN FileNode(files[p]) ELSE DirNode]

\* The union of two functions with disjoint domains.
Merge2(f, g) == [x \in DOMAIN f \cup DOMAIN g |-> IF x \in DOMAIN f THEN f[x] ELSE g[x]]

\* The names a directory holds.
EntriesOf(fs, dir) ==
    {basename(p) : p \in {q \in DOMAIN fs : Len(q) = Len(dir) + 1 /\ dirname(q) = dir}}

\* readdir(dir) of a directory: its names, in order.
readdir(fs, dir) == SelectSeq(NameOrder, LAMBDA n : n \in EntriesOf(fs, dir))

\* The elements of a sequence that pass a test, in order (Array.filter).
Filter(seq, Test(_)) == SelectSeq(seq, Test)

\* The sequences of a sequence of sequences, one after the other.
RECURSIVE Flatten(_)
Flatten(seqs) == IF seqs = <<>> THEN <<>> ELSE Head(seqs) \o Flatten(Tail(seqs))

Range(seq) == {seq[i] : i \in 1..Len(seq)}

(***************************************************************************)
(* discovery.ts (the location-partitioned layout)                          *)
(*   <source>/{general,frontend,backend}/{agents,commands,skills}/...      *)
(* displayName, a label derived from the name and used only for printing,  *)
(* is left out of the component records.                                   *)
(***************************************************************************)
Categories == <<"general", "frontend", "backend">>
SourceDir == <<"configurations">>

\* Mutant of HasRulesFile: an instruction file needs no rules file.
HasRulesFileAlways(files, rulesFile) == TRUE

\* files.includes(rulesFile)
HasRulesFile(files, rulesFile) == rulesFile \in Range(files)

\* The agents discoverAgents finds in one category directory.
AgentsIn(fs, sourceDir, category) ==
    LET agentsDir == join(join(sourceDir, category), "agents")
        files == readdir(fs, agentsDir)
        mdFiles == Filter(files, EndsWithMd)
        paired == Filter(mdFiles,
                         LAMBDA f : HasRulesFile(files, RulesFileName(StripMd(f))))
    IN  [i \in 1..Len(paired) |->
            [name |-> StripMd(paired[i]),
             mdFile |-> join(agentsDir, paired[i]),
             rulesFile |-> join(agentsDir, RulesFileName(StripMd(paired[i]))),
             category |-> category]]

\* readdir throws on a path that exists and is no directory.
ReaddirThrows(fs, dir) == pathExists(fs, dir) /\ ~IsDir(fs, dir)

KindDirs(sourceDir, kind) ==
    [i \in 1..Len(Categories) |-> join(join(sourceDir, Categories[i]), kind)]

discoverAgents(fs, sourceDir) ==
    IF \E d \in Range(KindDirs(sourceDir, "agents")) : ReaddirThrows(fs, d)
    THEN [threw |-> TRUE, list |-> <<>>]
    ELSE [threw |-> FALSE,
          list |-> Flatten([i \in 1..Len(Categories) |->
                     IF pathExists(fs, KindDirs(sourceDir, "agents")[i])
                     THEN AgentsIn(fs, sourceDir, Categories[i])
                     ELSE <<>>])]

\* The commands discoverCommands finds in one category directory.
CommandsIn(fs, sourceDir, category) ==
    LET commandsDir == join(join(sourceDir, category), "commands")
        mdFiles == Filter(readdir(fs, commandsDir), EndsWithMd)
    IN  [i \in 1..Len(mdFiles) |->
            [name |-> StripMd(mdFiles[i]),
             file |-> join(commandsDir, mdFiles[i]),
             category |-> category]]

discoverCommands(fs, sourceDir) ==
    IF \E d \in Range(KindDirs(sourceDir, "commands")) : ReaddirThrows(fs, d)
    THEN [threw |-> TRUE, list |-> <<>>]
    ELSE [threw |-> FALSE,
          list |-> Flatten([i \in 1..Len(Categories) |->
                     IF pathExists(fs, KindDirs(sourceDir, "commands")[i])
                     THEN CommandsIn(fs, sourceDir, Categories[i])
                     ELSE <<>>])]

\* Whether a file-skill candidate is taken: an .md file other than the README.
IsSkillFile(f) == EndsWithMd(f) /\ f # "README.md"

\* The skills discoverSkills finds for one entry of a skills directory.
SkillsOfEntry(fs, skillsDir, skillDirName, category) ==
    LET skillPath == join(skillsDir, skillDirName)
    IN  IF ~IsDir(fs, skillPath) THEN <<>>
        ELSE IF pathExists(fs, join(skillPath, "SKILL.md"))
        THEN <<[name |-> skillDirName,
                type |-> "directory",
                path |-> skillPath,
                skillCategory |-> skillDirName,
                category |-> category]>>
        ELSE LET mdFiles == Filter(readdir(fs, skillPath), IsSkillFile)
             IN  [i \in 1..Len(mdFiles) |->
                     [name |-> StripMd(mdFiles[i]),
                      type |-> "file",
                      path |-> join(skillPath, mdFiles[i]),
                      skillCategory |-> skillDirName,
                      category |-> category]]

SkillsIn(fs, sourceDir, category) ==
    LET skillsDir == join(join(sourceDir, category), "skills")
        skillDirs == readdir(fs, skillsDir)
    IN  Flatten([i \in 1..Len(skillDirs) |->
                    SkillsOfEntry(fs, skillsDir, skillDirs[i], category)])

discoverSkills(fs, sourceDir) ==
    IF \E d \in Range(KindDirs(sourceDir, "skills")) : ReaddirThrows(fs, d)
    THEN [threw |-> TRUE, list |-> <<>>]
    ELSE [threw |-> FALSE,
          list |-> Flatten([i \in 1..Len(Categories) |->
                     IF pathExists(fs, KindDirs(sourceDir, "skills")[i])
                     THEN SkillsIn(fs, sourceDir, Categories[i])
                     ELSE <<>>])]

\* discoverAll: Promise.all of the three scans; it rejects when one does.
discoverAll(fs, sourceDir) ==
    LET agents == discoverAgents(fs, sourceDir)
        commands == discoverCommands(fs, sourceDir)
        skills == discoverSkills(fs, sourceDir)
    IN  [threw |-> agents.threw \/ commands.threw \/ skills.threw,
         agents |-> agents.list,
         commands |-> commands.list,
         skills |-> skills.list]

(***************************************************************************)
(* discovery.ts, the earlier flat layout <source>/agents/*: the same       *)
(* pairing rule, the category taken from the name.                         *)
(***************************************************************************)
\* name.toLowerCase().includes(keyword), for the names that occur.
NameIncludes(name, keyword) == name = "ui-kit" /\ keyword = "ui"

BackendKeywords == {"backend", "api", "database", "prisma", "express"}
FrontendKeywords ==
    {"frontend", "react", "nextjs", "next-js", "ui", "component", "tailwind"}

categorizeComponent(name) ==
    IF \E k \in BackendKeywords : NameIncludes(name, k) THEN "backend"
    ELSE IF \E k \in FrontendKeywords : NameIncludes(name, k) THEN "frontend"
    ELSE "general"

discoverAgentsFlat(fs, sourceDir) ==
    LET agentsDir == join(sourceDir, "agents")
        files == readdir(fs, agentsDir)
        mdFiles == Filter(files, EndsWithMd)
        paired == Filter(mdFiles,
                         LAMBDA f : HasRulesFile(files, RulesFileName(StripMd(f))))
    IN  IF ~pathExists(fs, agentsDir) THEN [threw |-> FALSE, list |-> <<>>]
        ELSE IF ReaddirThrows(fs, agentsDir) THEN [threw |-> TRUE, list |-> <<>>]
        ELSE [threw |-> FALSE,
              list |-> [i \in 1..Len(paired) |->
                 [name |-> StripMd(paired[i]),
                  mdFile |-> join(agentsDir, paired[i]),
                  rulesFile |-> join(agentsDir, RulesFileName(StripMd(paired[i]))),
                  category |-> categorizeComponent(StripMd(paired[i]))]]]

(***************************************************************************)
(* The source trees discovery is exercised on.                             *)
(***************************************************************************)
\* The content of a source file, by its name.
SourceContent(name) ==
    CASE name = "skill-rules-fragment.json" ->
            JsonText("raw", Obj1("shared", Obj1("b", JBool(TRUE))))
      [] name = "reviewer-rules.json" ->
            JsonText("raw", Obj1("reviewer", Obj1("on", JBool(TRUE))))
      [] name \in {"a-rules.json", "b-rules.json", "ui-kit-rules.json"} ->
            JsonText("raw", Obj1(name, JNum(1)))
      [] OTHER -> Text(name)

\* A directory at dir listing the files of names.
DirWith(dir, names) ==
    MkFs({dir}, [p \in {join(dir, n) : n \in names} |-> SourceContent(basename(p))])

\* What an agents directory may list.
AgentFileNames == {"a.md", "a-rules.json", "b.md", "ui-kit.md", "ui-kit-rules.json"}
\* What may stand at the path of a kind directory: nothing, a file, or a
\* directory with some listing.
AgentsDirStates(dir) ==
    {<<>>, MkFs({}, [p \in {dir} |-> Text("agents")])}
    \cup {DirWith(dir, names) : names \in SUBSET AgentFileNames}
CommandsDirStates(dir) ==
    {<<>>, MkFs({}, [p \in {dir} |-> Text("commands")]),
     DirWith(dir, {}), DirWith(dir, {"deploy.md", "notes.txt"})}
\* A skills directory: a skill category of file-skills with a README and a
\* nested directory, a directory-skill with a fragment, and a stray file.
\* and a skill category that holds a directory whose name ends with .md.
SkillsDirStates(dir) ==
    {<<>>, MkFs({}, [p \in {dir} |-> Text("skills")]),
     DirWith(join(dir, "shared"), {"a.md", "README.md"}),
     Merge2(DirWith(join(dir, "shared"), {"a.md", "notes.txt"}),
            DirWith(join(join(dir, "shared"), "b"),
                    {"SKILL.md", "skill-rules-fragment.json"})),
     Merge2(DirWith(join(dir, "b"), {"SKILL.md", "skill-rules-fragment.json"}),
            DirWith(dir, {"notes.txt"})),
     Merge2(DirWith(join(dir, "shared"), {"a.md"}),
            DirWith(join(join(dir, "shared"), "b.md"), {"notes.txt"}))}

CategoryDir(category) == join(SourceDir, category)

\* Union of file systems that may share directories.
FsUnion(f, g) == [x \in DOMAIN f \cup DOMAIN g |-> IF x \in DOMAIN g THEN g[x] ELSE f[x]]

\* The trees: the general category in every state, the other two categories
\* and the flat agents directory in a few.
SourceTrees ==
    {FsUnion(FsUnion(FsUnion(FsUnion(MkFs({SourceDir}, <<>>), ga), gc), gs), other) :
        ga \in AgentsDirStates(join(CategoryDir("general"), "agents")),
        gc \in CommandsDirStates(join(CategoryDir("general"), "commands")),
        gs \in SkillsDirStates(join(CategoryDir("general"), "skills")),
        other \in {<<>>,
                   DirWith(join(CategoryDir("backend"), "agents"),
                           {"reviewer.md", "reviewer-rules.json", "a.md"}),
                   DirWith(join(CategoryDir("frontend"), "commands"), {"deploy.md"}),
                   DirWith(join(SourceDir, "agents"),
                           {"ui-kit.md", "ui-kit-rules.json", "b.md", "a.md",
                            "a-rules.json"})}}

NoComponents == [threw |-> FALSE, agents |-> <<>>, commands |-> <<>>, skills |-> <<>>]

DiscInit ==
    /\ sfs \in SourceTrees
    /\ tfs = <<>>
    /\ opLog = <<>>
    /\ components = NoComponents
    /\ discPc = "ready"

DiscIdle ==
    /\ components = NoComponents
    /\ discPc = "idle"

DiscoverAgentsCall ==
    /\ discPc = "ready"
    /\ LET r == discoverAgents(sfs, SourceDir)
       IN  components' = [components EXCEPT !.threw = r.threw, !.agents = r.list]
    /\ discPc' = "discoverAgents"
    /\ UNCHANGED <<dmVars, promptVars, fsVars, mrVars, instVars, menuVars, mainVars>>

DiscoverAgentsFlatCall ==
    /\ discPc = "ready"
    /\ LET r == discoverAgentsFlat(sfs, SourceDir)
       IN  components' = [components EXCEPT !.threw = r.threw, !.agents = r.list]
    /\ discPc' = "discoverAgentsFlat"
    /\ UNCHANGED <<dmVars, promptVars, fsVars, mrVars, instVars, menuVars, mainVars>>

DiscoverCommandsCall ==
    /\ discPc = "ready"
    /\ LET r == discoverCommands(sfs, SourceDir)
       IN  components' = [components EXCEPT !.threw = r.threw, !.commands = r.list]
    /\ discPc' = "discoverCommands"
    /\ UNCHANGED <<dmVars, promptVars, fsVars, mrVars, instVars, menuVars, mainVars>>

DiscoverSkillsCall ==
    /\ discPc = "ready"
    /\ LET r == discoverSkills(sfs, SourceDir)
       IN  components' = [components EXCEPT !.threw = r.threw, !.skills = r.list]
    /\ discPc' = "discoverSkills"
    /\ UNCHANGED <<dmVars, promptVars, fsVars, mrVars, instVars, menuVars, mainVars>>

DiscoverAllCall ==
    /\ discPc = "ready"
    /\ components' = discoverAll(sfs, SourceDir)
    /\ discPc' = "discoverAll"
    /\ UNCHANGED <<dmVars, promptVars, fsVars, mrVars, instVars, menuVars, mainVars>>

(***************************************************************************)
(* paths.ts and the fs calls of installer.ts                               *)
(***************************************************************************)
getConfigPaths(baseDir) ==
    [agents |-> join(baseDir, "agents"),
     commands |-> join(baseDir, "commands"),
     skills |-> join(baseDir, "skills"),
     skillRules |-> join(baseDir, "skill-rules.json")]

MkdirOp(path) == [op |-> "mkdir", path |-> path]
CopyOp(path) == [op |-> "copyFile", path |-> path]
CpOp(path) == [op |-> "cp", path |-> path]
ThrowOp(call, path) == [op |-> "throw", call |-> call, path |-> path]

\* Mutant of Throws: the call fails but the rejection is lost.
ThrowsSwallowed(fs, call, path) ==
    [fs |-> fs, ops |-> <<ThrowOp(call, path)>>, threw |-> FALSE]

\* An fs call that rejects: nothing is written and the caller's await throws.
Throws(fs, call, path) ==
    [fs |-> fs, ops |-> <<ThrowOp(call, path)>>, threw |-> TRUE]

Prefixes(path) == {SubSeq(path, 1, n) : n \in 1..Len(path)}

\* fs with the directories of dirs added where nothing stands.
WithDirs(fs, dirs) ==
    [p \in DOMAIN fs \cup dirs |-> IF p \in DOMAIN fs THEN fs[p] ELSE DirNode]

\* mkdir(dir, { recursive: true }): throws when a file stands on the way.
mkdirRecursive(fs, dir) ==
    IF \E p \in Prefixes(dir) : IsFile(fs, p)
    THEN Throws(fs, "mkdir", dir)
    ELSE [fs |-> WithDirs(fs, Prefixes(dir)), ops |-> <<MkdirOp(dir)>>,
          threw |-> FALSE]

\* ensureDir(dir): mkdir unless something exists at dir.
ensureDir(fs, dir) ==
    IF pathExists(fs, dir)
    THEN [fs |-> fs, ops |-> <<>>, threw |-> FALSE]
    ELSE mkdirRecursive(fs, dir)

\* copyFile(from, to), from read in src and to written in dst.
copyFile(src, dst, from, to) ==
    IF ~IsFile(src, from) \/ ~CanWriteFile(dst, to)
    THEN Throws(dst, "copyFile", to)
    ELSE [fs |-> Put(dst, to, src[from]), ops |-> <<CopyOp(to)>>, threw |-> FALSE]

\* The paths of src at or below from, relative to from.
Below(src, from) ==
    {SubSeq(q, Len(from) + 1, Len(q)) :
        q \in {r \in DOMAIN src : Len(r) >= Len(from) /\ SubSeq(r, 1, Len(from)) = from}}

\* cp(from, to, { recursive: true }): the tree at from laid over to; the
\* directories above to are made; a file where a directory goes, or a
\* directory where a file goes, throws.
cp(src, dst, from, to) ==
    LET rels == Below(src, from)
        clash ==
            \/ ~pathExists(src, from)
            \/ \E p \in Prefixes(dirname(to)) : IsFile(dst, p)
            \/ \E rel \in rels :
                  /\ pathExists(dst, to \o rel)
                  /\ dst[to \o rel].kind # src[from \o rel].kind
        based == WithDirs(dst, Prefixes(dirname(to)))
    IN  IF clash
        THEN Throws(dst, "cp", to)
        ELSE [fs |-> [p \in DOMAIN based \cup {to \o rel : rel \in rels} |->
                        IF \E rel \in rels : p = to \o rel
                        THEN src[from \o SubSeq(p, Len(to) + 1, Len(p))]
                        ELSE based[p]],
              ops |-> <<CpOp(to)>>, threw |-> FALSE]

\* No call is made.
NoFsCall(fs) == [fs |-> fs, ops |-> <<>>, threw |-> FALSE]

\* Two fs calls in a row: the second runs on the first's result unless the
\* first threw.
Then(first, second(_)) ==
    IF first.threw THEN first
    ELSE LET r == second(first.fs)
         IN  [fs |-> r.fs, ops |-> first.ops \o r.ops, threw |-> r.threw]

(***************************************************************************)
(* installer.ts                                                            *)
(***************************************************************************)
installAgent(src, dst, agent, toDir) ==
    Then(copyFile(src, dst, agent.mdFile, join(toDir, basename(agent.mdFile))),
         LAMBDA fs : copyFile(src, fs, agent.rulesFile,
                              join(toDir, basename(agent.rulesFile))))

installCommand(src, dst, command, toDir) ==
    copyFile(src, dst, command.file, join(toDir, basename(command.file)))

\* Mutant of NamedAsCategory: no directory-skill is taken to bear the name of
\* its skill category.
NamedAsCategoryNever(skill) == FALSE

\* skill.name === skill.skillCategory
NamedAsCategory(skill) == skill.name = skill.skillCategory

installSkill(src, dst, skill, toDir) ==
    IF skill.type = "directory"
    THEN IF NamedAsCategory(skill)
         THEN cp(src, dst, skill.path, toDir)
         ELSE cp(src, dst, skill.path, join(toDir, skill.name))
    ELSE copyFile(src, dst, skill.path, join(toDir, basename(skill.path)))

\* Mutant of NeedsDir: the directory of a kind is made whatever is selected.
NeedsDirAlways(items) == TRUE

\* The test that guards the directory and the copies of one kind.
NeedsDir(items) == Len(items) > 0

\* Mutant of CollectsFragment: a fragment path is collected for every skill.
CollectsFragmentOfAny(src, skill, fragmentPath) == TRUE

\* if (skill.type === 'directory' && skill.path) ... if (await pathExists(fragmentPath))
CollectsFragment(src, skill, fragmentPath) ==
    skill.type = "directory" /\ pathExists(src, fragmentPath)

\* The grouping loop of install over skills[1..n]: the Map (a sequence of
\* entries in insertion order), results.skills and the fragments collected.
RECURSIVE GroupSkills(_, _, _)
GroupSkills(src, skills, n) ==
    IF n = 0 THEN [map |-> <<>>, names |-> <<>>, fragments |-> <<>>]
    ELSE LET before == GroupSkills(src, skills, n - 1)
             skill == skills[n]
             has == \E i \in 1..Len(before.map) :
                        before.map[i].skillCategory = skill.skillCategory
             withKey ==
                 IF has THEN before.map
                 ELSE Append(before.map,
                             [skillCategory |-> skill.skillCategory, skills |-> <<>>])
             fragmentPath == join(skill.path, "skill-rules-fragment.json")
         IN  [map |-> [i \in 1..Len(withKey) |->
                         IF withKey[i].skillCategory = skill.skillCategory
                         THEN [withKey[i] EXCEPT !.skills = Append(@, skill)]
                         ELSE withKey[i]],
              names |-> Append(before.names,
                               skill.skillCategory \o "/" \o skill.name),
              fragments |->
                 IF CollectsFragment(src, skill, fragmentPath)
                 THEN Append(before.fragments, fragmentPath)
                 ELSE before.fragments]

\* The call of mergeAllRules, as install makes it.
MergeCallOp(ruleSources) == [op |-> "mergeAllRules", sources |-> ruleSources]

\* Mutant of ShouldMerge: the merge is called whatever was collected.
ShouldMergeAlways(rulesFiles) == TRUE

\* if (results.rulesFiles.length > 0)
ShouldMerge(rulesFiles) == Len(rulesFiles) > 0

NoResults == [agents |-> <<>>, commands |-> <<>>, skills |-> <<>>, rulesFiles |-> <<>>]
NoSelections == [agents |-> <<>>, commands |-> <<>>, skills |-> <<>>]

InstIdle ==
    /\ selections = NoSelections
    /\ results = NoResults
    /\ skillsByCategory = <<>>
    /\ instIdx = 0
    /\ instCat = 0
    /\ instPre = <<>>
    /\ targetDir = TargetDir
    /\ instPc = "idle"

Paths == getConfigPaths(targetDir)

\* install is called: lines 45-51.
InstallBegin ==
    /\ instPc = "called"
    /\ results' = NoResults
    /\ instPre' = tfs
    /\ instPc' = "agentsDir"
    /\ UNCHANGED <<selections, skillsByCategory, instIdx, instCat,
                   fsVars, dmVars, promptVars, mrVars, discVars,
                   targetDir, menuVars, mainVars>>

\* if (selections.agents.length > 0) ensureDir(paths.agents)
InstallAgentsDir ==
    /\ instPc = "agentsDir"
    /\ LET r == IF NeedsDir(selections.agents)
                THEN ensureDir(tfs, Paths.agents) ELSE NoFsCall(tfs)
       IN  /\ tfs' = r.fs
           /\ opLog' = opLog \o r.ops
           /\ instPc' = IF r.threw THEN "failed"
                        ELSE IF Len(selections.agents) = 0 THEN "commandsDir"
                        ELSE "agentCopy"
    /\ instIdx' = 1
    /\ UNCHANGED <<sfs, selections, results, skillsByCategory, instCat, instPre,
                   dmVars, promptVars, mrVars, discVars,
                   targetDir, menuVars, mainVars>>

\* One turn of the loop over selections.agents.
InstallAgentCopy ==
    /\ instPc = "agentCopy"
    /\ LET agent == selections.agents[instIdx]
           r == installAgent(sfs, tfs, agent, Paths.agents)
       IN  /\ tfs' = r.fs
           /\ opLog' = opLog \o r.ops
           /\ IF r.threw
              THEN /\ instPc' = "failed"
                   /\ UNCHANGED <<results, instIdx>>
              ELSE /\ results' = [results EXCEPT
                                    !.agents = Append(@, agent.name),
                                    !.rulesFiles = Append(@, agent.rulesFile)]
                   /\ instIdx' = instIdx + 1
                   /\ instPc' = IF instIdx = Len(selections.agents)
                                THEN "commandsDir" ELSE "agentCopy"
    /\ UNCHANGED <<sfs, selections, skillsByCategory, instCat, instPre,
                   dmVars, promptVars, mrVars, discVars,
                   targetDir, menuVars, mainVars>>

\* if (selections.commands.length > 0) ensureDir(paths.commands)
InstallCommandsDir ==
    /\ instPc = "commandsDir"
    /\ LET r == IF NeedsDir(selections.commands)
                THEN ensureDir(tfs, Paths.commands) ELSE NoFsCall(tfs)
       IN  /\ tfs' = r.fs
           /\ opLog' = opLog \o r.ops
           /\ instPc' = IF r.threw THEN "failed"
                        ELSE IF Len(selections.commands) = 0 THEN "skillsDir"
                        ELSE "commandCopy"
    /\ instIdx' = 1
    /\ UNCHANGED <<sfs, selections, results, skillsByCategory, instCat, instPre,
                   dmVars, promptVars, mrVars, discVars,
                   targetDir, menuVars, mainVars>>

\* One turn of the loop over selections.commands.
InstallCommandCopy ==
    /\ instPc = "commandCopy"
    /\ LET command == selections.commands[instIdx]
           r == installCommand(sfs, tfs, command, Paths.commands)
       IN  /\ tfs' = r.fs
           /\ opLog' = opLog \o r.ops
           /\ IF r.threw
              THEN /\ instPc' = "failed"
                   /\ UNCHANGED <<results, instIdx>>
              ELSE /\ results' = [results EXCEPT !.commands = Append(@, command.name)]
                   /\ instIdx' = instIdx + 1
                   /\ instPc' = IF instIdx = Len(selections.commands)
                                THEN "skillsDir" ELSE "commandCopy"
    /\ UNCHANGED <<sfs, selections, skillsByCategory, instCat, instPre,
                   dmVars, promptVars, mrVars, discVars,
                   targetDir, menuVars, mainVars>>

\* if (selections.skills.length > 0): ensureDir(paths.skills) and the
\* grouping loop, which collects the rules fragments.
InstallSkillsDir ==
    /\ instPc = "skillsDir"
    /\ LET r == IF NeedsDir(selections.skills)
                THEN ensureDir(tfs, Paths.skills) ELSE NoFsCall(tfs)
           g == GroupSkills(sfs, selections.skills, Len(selections.skills))
       IN  /\ tfs' = r.fs
           /\ opLog' = opLog \o r.ops
           /\ IF r.threw
              THEN /\ instPc' = "failed"
                   /\ UNCHANGED <<results, skillsByCategory>>
              ELSE /\ instPc' = IF Len(selections.skills) = 0 THEN "merge"
                                ELSE "skillCategoryDir"
                   /\ skillsByCategory' = g.map
                   /\ results' = [results EXCEPT
                                    !.skills = @ \o g.names,
                                    !.rulesFiles = @ \o g.fragments]
    /\ instIdx' = 1
    /\ instCat' = 1
    /\ UNCHANGED <<sfs, selections, instPre, dmVars, promptVars, mrVars, discVars,
                   targetDir, menuVars, mainVars>>

\* ensureDir(join(paths.skills, skillCategory)) for the running Map entry.
InstallSkillCategoryDir ==
    /\ instPc = "skillCategoryDir"
    /\ LET r == ensureDir(tfs, join(Paths.skills,
                                    skillsByCategory[instCat].skillCategory))
       IN  /\ tfs' = r.fs
           /\ opLog' = opLog \o r.ops
           /\ instPc' = IF r.threw THEN "failed" ELSE "skillCopy"
    /\ instIdx' = 1
    /\ UNCHANGED <<sfs, selections, results, skillsByCategory, instCat, instPre,
                   dmVars, promptVars, mrVars, discVars,
                   targetDir, menuVars, mainVars>>

\* One turn of the loop over the skills of the running Map entry.
InstallSkillCopy ==
    /\ instPc = "skillCopy"
    /\ LET entry == skillsByCategory[instCat]
           skill == entry.skills[instIdx]
           r == installSkill(sfs, tfs, skill, join(Paths.skills, entry.skillCategory))
       IN  /\ tfs' = r.fs
           /\ opLog' = opLog \o r.ops
           /\ IF r.threw
              THEN /\ instPc' = "failed"
                   /\ UNCHANGED <<instIdx, instCat>>
              ELSE IF instIdx < Len(entry.skills)
              THEN /\ instIdx' = instIdx + 1
                   /\ UNCHANGED <<instPc, instCat>>
              ELSE IF instCat < Len(skillsByCategory)
              THEN /\ instCat' = instCat + 1
                   /\ instIdx' = 1
                   /\ instPc' = "skillCategoryDir"
              ELSE /\ instPc' = "merge"
                   /\ UNCHANGED <<instIdx, instCat>>
    /\ UNCHANGED <<sfs, selections, results, skillsByCategory, instPre,
                   dmVars, promptVars, mrVars, discVars,
                   targetDir, menuVars, mainVars>>

\* if (results.rulesFiles.length > 0) mergeAllRules(...); return results.
\* The number mergeAllRules resolves to is kept in mrReturn; install drops it.
InstallMerge ==
    /\ instPc = "merge"
    /\ IF ShouldMerge(results.rulesFiles)
       THEN LET r == mergeAllRules(sfs, tfs, Paths.skillRules, results.rulesFiles)
            IN  /\ tfs' = r.fs
                /\ opLog' = opLog \o <<MergeCallOp(results.rulesFiles)>> \o r.ops
                /\ mrReturn' = [fn |-> "mergeAllRules", threw |-> r.threw,
                                count |-> r.count]
                /\ instPc' = IF r.threw THEN "failed" ELSE "done"
       ELSE /\ instPc' = "done"
            /\ UNCHANGED <<tfs, opLog, mrReturn>>
    /\ UNCHANGED <<sfs, selections, results, skillsByCategory, instIdx, instCat,
                   instPre, dmVars, promptVars, mrSources, mrPre, mrPc, discVars,
                   targetDir, menuVars, mainVars>>

(***************************************************************************)
(* The selections and targets install is exercised on.                     *)
(***************************************************************************)
\* A source tree with two agents, two commands and four skills: file-skills
\* of one skill category in two component categories, a directory-skill with
\* a rules fragment, and one without.
InstallTree ==
    LET general == CategoryDir("general")
        frontend == CategoryDir("frontend")
        backend == CategoryDir("backend")
    IN  FsUnion(FsUnion(FsUnion(FsUnion(FsUnion(FsUnion(FsUnion(
            DirWith(join(general, "agents"), {"a.md", "a-rules.json"}),
            DirWith(join(backend, "agents"), {"reviewer.md", "reviewer-rules.json"})),
            DirWith(join(general, "commands"), {"deploy.md"})),
            DirWith(join(frontend, "commands"), {"a.md"})),
            DirWith(join(join(general, "skills"), "shared"), {"a.md", "README.md"})),
            DirWith(join(join(general, "skills"), "b"),
                    {"SKILL.md", "skill-rules-fragment.json", "notes.txt"})),
            DirWith(join(join(frontend, "skills"), "shared"), {"b.md"})),
            DirWith(join(join(backend, "skills"), "ui-kit"), {"SKILL.md"}))

\* The same tree, the tree where the rules file of agent a is no JSON text,
\* and the tree where the directory-skill ui-kit has a fragment too, setting
\* the key of the reviewer agent's rules.
InstallTrees ==
    {InstallTree,
     Put(InstallTree, join(join(CategoryDir("general"), "agents"), "a-rules.json"),
         FileNode(Garbage)),
     Put(InstallTree,
         join(join(join(CategoryDir("backend"), "skills"), "ui-kit"),
              "skill-rules-fragment.json"),
         FileNode(JsonText("raw", Obj1("reviewer", JBool(FALSE)))))}

\* The subsequences of a sequence.
SubSeqs(seq) ==
    {SelectSeq([i \in 1..Len(seq) |-> [i |-> i, x |-> seq[i]]],
               LAMBDA e : e.i \in keep) : keep \in SUBSET (1..Len(seq))}
Items(entries) == [i \in 1..Len(entries) |-> entries[i].x]

\* The targets: nothing there, an empty target directory, one holding a
\* rules document and an agents directory, one where a file stands at skills,
\* one where a directory stands at the place of an agent's rules file.
InstallTargets ==
    {<<>>,
     FsUnion(RuleTargetFs(JsonText("raw", ObjAB3)),
             MkFs({join(join(TargetDir, "agents"), "a-rules.json")}, <<>>)),
     MkFs({TargetDir}, <<>>),
     FsUnion(RuleTargetFs(JsonText("raw", ObjAB3)),
             DirWith(join(TargetDir, "agents"), {"b.md"})),
     MkFs({TargetDir}, [p \in {join(TargetDir, "skills")} |-> Text("skills")])}

InstInit ==
    /\ sfs \in InstallTrees
    /\ tfs \in InstallTargets
    /\ opLog = <<>>
    /\ components = discoverAll(sfs, SourceDir)
    /\ discPc = "discoverAll"
    /\ \E a \in SubSeqs(components.agents), c \in SubSeqs(components.commands),
          k \in SubSeqs(components.skills) :
          selections = [agents |-> Items(a), commands |-> Items(c), skills |-> Items(k)]
    /\ results = NoResults
    /\ skillsByCategory = <<>>
    /\ instIdx = 0
    /\ instCat = 0
    /\ instPre = <<>>
    /\ targetDir = TargetDir
    /\ instPc = "called"

(***************************************************************************)
(* menu.ts: the menu tree. Labels, which are only printed, are left out.   *)
(***************************************************************************)
Folder(id, children) == [id |-> id, type |-> "folder", children |-> children]
Leaf(id) == [id |-> id, type |-> "file"]

\* components.map(c => ({ id: `<prefix>:${c.name}`, type: 'file' }))
Leaves(prefix, comps) ==
    [i \in 1..Len(comps) |-> Leaf(prefix \o ":" \o comps[i].name)]

KindFolders(category, group) ==
    <<Folder(category \o "/agents", Leaves("agent", group.agents)),
      Folder(category \o "/commands", Leaves("command", group.commands)),
      Folder(category \o "/skills", Leaves("skill", group.skills))>>

\* The general branch pushes its three folders whatever they hold.
GeneralChildren(categories) ==
    IF "general" \in DOMAIN categories
    THEN KindFolders("general", categories["general"])
    ELSE <<>>

\* The frontend and backend branches push a folder only when it holds an item.
ProjectChildren(categories, category) ==
    IF category \in DOMAIN categories
    THEN Filter(KindFolders(category, categories[category]),
                LAMBDA f : Len(f.children) > 0)
    ELSE <<>>

\* root.children.push(...) only if the category has children.
CategoryFolder(category, children) ==
    IF Len(children) > 0 THEN <<Folder(category, children)>> ELSE <<>>

buildCategoryMenuTree(categories, loc) ==
    Folder("root",
           CategoryFolder("general", GeneralChildren(categories))
           \o (IF loc = "local"
               THEN CategoryFolder("frontend", ProjectChildren(categories, "frontend"))
                    \o CategoryFolder("backend", ProjectChildren(categories, "backend"))
               ELSE <<>>))

\* The nodes of a tree below the root: category folders, kind folders, leaves.
CategoryNodes(root) == Range(root.children)
KindNodes(root) == UNION {Range(cat.children) : cat \in CategoryNodes(root)}
LeafNodes(root) == UNION {Range(kind.children) : kind \in KindNodes(root)}
LeafIdsOf(root) == {leaf.id : leaf \in LeafNodes(root)}

(***************************************************************************)
(* menu.ts: interactiveMenu                                                *)
(***************************************************************************)
\* The value that stands for NaN in selectedIndex: x % 0.
NaN == 0 - 1

\* a % b of JavaScript for a >= 0.
JsMod(a, b) == IF b = 0 \/ a = NaN THEN NaN ELSE a % b

\* Whether items[index] is an item (and not undefined).
HasItem(items, index) == index \in 0..(Len(items) - 1)
ItemAt(items, index) == items[index + 1]

\* Mutant of Toggle: a mark is only ever added.
ToggleAddOnly(marks, id) == marks \cup {id}

\* if (selectedItems.has(id)) selectedItems.delete(id) else selectedItems.add(id)
Toggle(marks, id) == IF id \in marks THEN marks \ {id} ELSE marks \cup {id}

NoToggle == [id |-> "", before |-> {}, navigated |-> FALSE, twice |-> FALSE]
EmptyRoot == Folder("root", <<>>)

MenuIdle ==
    /\ menuRoot = EmptyRoot
    /\ menuPath = <<>>
    /\ currentItems = <<>>
    /\ selectedIndex = 0
    /\ selectedItems = {}
    /\ rawMode = FALSE
    /\ listening = FALSE
    /\ menuPc = "idle"
    /\ toggleObs = NoToggle

\* interactiveMenu(root) up to the first render: lines 80-92 and 168-169.
MenuOpened(root) ==
    /\ menuRoot = root
    /\ menuPath = <<>>
    /\ currentItems = root.children
    /\ selectedIndex = 0
    /\ selectedItems = {}
    /\ rawMode = TRUE
    /\ listening = TRUE
    /\ menuPc = "open"

\* The same, as the step that calls interactiveMenu.
OpenMenu(root) ==
    /\ menuRoot' = root
    /\ menuPath' = <<>>
    /\ currentItems' = root.children
    /\ selectedIndex' = 0
    /\ selectedItems' = {}
    /\ rawMode' = TRUE
    /\ listening' = TRUE
    /\ menuPc' = "open"

MenuFrame == UNCHANGED <<dmVars, promptVars, fsVars, mrVars, discVars, instVars, location>>

\* An exception thrown by handleInput is not caught: the process dies with
\* exit code 1, cleanup not having run.
HandlerThrows ==
    /\ menuPc' = "crashed"
    /\ mainPc' = "exited"
    /\ exitCode' = 1
    /\ UNCHANGED <<menuRoot, menuPath, currentItems, selectedIndex, selectedItems,
                   rawMode, listening>>

\* Ctrl+C: cleanup(); process.exit(0)
KeyCtrlC ==
    /\ menuPc = "open" /\ listening
    /\ listening' = FALSE
    /\ rawMode' = FALSE
    /\ menuPc' = "exited"
    /\ mainPc' = "exited"
    /\ exitCode' = 0
    /\ UNCHANGED <<menuRoot, menuPath, currentItems, selectedIndex, selectedItems>>
    /\ MenuFrame

\* 'j': down
KeyDown ==
    /\ menuPc = "open" /\ listening
    /\ selectedIndex' = JsMod(IF selectedIndex = NaN THEN NaN ELSE selectedIndex + 1,
                              Len(currentItems))
    /\ UNCHANGED <<menuRoot, menuPath, currentItems, selectedItems, rawMode,
                   listening, menuPc, mainPc, exitCode>>
    /\ MenuFrame

\* 'k': up
KeyUp ==
    /\ menuPc = "open" /\ listening
    /\ selectedIndex' = JsMod(IF selectedIndex = NaN THEN NaN
                              ELSE selectedIndex - 1 + Len(currentItems),
                              Len(currentItems))
    /\ UNCHANGED <<menuRoot, menuPath, currentItems, selectedItems, rawMode,
                   listening, menuPc, mainPc, exitCode>>
    /\ MenuFrame

\* ' ': mark or unmark the item under the cursor, whatever its type.
KeySpace ==
    /\ menuPc = "open" /\ listening
    /\ IF HasItem(currentItems, selectedIndex)
       THEN /\ selectedItems' =
                  Toggle(selectedItems, ItemAt(currentItems, selectedIndex).id)
            /\ UNCHANGED <<menuRoot, menuPath, currentItems, selectedIndex, rawMode,
                           listening, menuPc, mainPc, exitCode>>
       ELSE HandlerThrows
    /\ MenuFrame

\* Enter: open the folder under the cursor.
KeyEnter ==
    /\ menuPc = "open" /\ listening
    /\ IF HasItem(currentItems, selectedIndex)
       THEN LET item == ItemAt(currentItems, selectedIndex)
            IN  IF item.type = "folder"
                THEN /\ menuPath' = Append(menuPath, item)
                     /\ currentItems' = item.children
                     /\ selectedIndex' = 0
                     /\ UNCHANGED <<menuRoot, selectedItems, rawMode, listening,
                                    menuPc, mainPc, exitCode>>
                ELSE UNCHANGED <<menuRoot, menuPath, currentItems, selectedIndex,
                                 selectedItems, rawMode, listening, menuPc,
                                 mainPc, exitCode>>
       ELSE HandlerThrows
    /\ MenuFrame

\* Mutant of RestoredItems: 'b' shows the root's children whatever is left
\* on the breadcrumb.
RestoredItemsOfRoot(root, path) == root.children

\* What 'b' shows after the pop: root.children when the breadcrumb is empty,
\* the children of its last folder otherwise.
RestoredItems(root, path) ==
    IF Len(path) = 0 THEN root.children ELSE path[Len(path)].children

\* 'b': back to the parent folder.
KeyBack ==
    /\ menuPc = "open" /\ listening
    /\ IF Len(menuPath) > 0
       THEN LET popped == SubSeq(menuPath, 1, Len(menuPath) - 1)
            IN  /\ menuPath' = popped
                /\ currentItems' = RestoredItems(menuRoot, popped)
                /\ selectedIndex' = 0
       ELSE UNCHANGED <<menuPath, currentItems, selectedIndex>>
    /\ UNCHANGED <<menuRoot, selectedItems, rawMode, listening, menuPc, mainPc,
                   exitCode>>
    /\ MenuFrame

\* 'f': cleanup(); resolve(selectedItems)
KeyFinish ==
    /\ menuPc = "open" /\ listening
    /\ listening' = FALSE
    /\ rawMode' = FALSE
    /\ menuPc' = "resolved"
    /\ UNCHANGED <<menuRoot, menuPath, currentItems, selectedIndex, selectedItems,
                   mainPc, exitCode>>
    /\ MenuFrame

\* Any other input: no case of the switch matches.
KeyOther ==
    /\ menuPc = "open" /\ listening
    /\ UNCHANGED <<menuRoot, menuPath, currentItems, selectedIndex, selectedItems,
                   rawMode, listening, menuPc, mainPc, exitCode>>
    /\ MenuFrame

\* What an observer of the keys remembers: the id last toggled, the marks
\* before that toggle, whether a folder was entered or left since, and
\* whether the id has been toggled again with no other toggle in between.
ToggleSeen ==
    toggleObs' =
        IF ~HasItem(currentItems, selectedIndex) THEN toggleObs
        ELSE LET id == ItemAt(currentItems, selectedIndex).id
             IN  IF toggleObs.id = id /\ ~toggleObs.twice
                 THEN [toggleObs EXCEPT !.twice = TRUE]
                 ELSE [id |-> id, before |-> selectedItems,
                       navigated |-> FALSE, twice |-> FALSE]
NavigationSeen ==
    toggleObs' =
        IF toggleObs.id # "" /\ ~toggleObs.twice /\ menuPath' # menuPath
        THEN [toggleObs EXCEPT !.navigated = TRUE]
        ELSE toggleObs
Unobserved == UNCHANGED toggleObs

(***************************************************************************)
(* cli.ts: main                                                            *)
(***************************************************************************)
Locations == {"global", "local"}

\* getInstallDir(location): '~/.claude/' for global, './.claude/' for local,
\* as the choices offered at lines 53-64 name them.
getInstallDir(loc) == IF loc = "global" THEN <<"~", ".claude">> ELSE <<".claude">>

\* groupedComponents, lines 78-94.
GroupedComponents(comps) ==
    [c \in {"general", "frontend", "backend"} |->
        [agents |-> Filter(comps.agents, LAMBDA a : a.category = c),
         commands |-> Filter(comps.commands, LAMBDA x : x.category = c),
         skills |-> Filter(comps.skills, LAMBDA k : k.category = c)]]

\* Map selected ids to components, lines 116-120.
SelectionsOf(comps, selectedIds) ==
    [agents |-> Filter(comps.agents, LAMBDA a : ("agent:" \o a.name) \in selectedIds),
     commands |-> Filter(comps.commands,
                         LAMBDA c : ("command:" \o c.name) \in selectedIds),
     skills |-> Filter(comps.skills, LAMBDA k : ("skill:" \o k.name) \in selectedIds)]

PromptIdle ==
    /\ prompts = <<>>
    /\ cart = <<>>

MainIdle ==
    /\ location = "none"
    /\ exitCode = 0 - 1
    /\ mainPc = "idle"

Exit(code) ==
    /\ mainPc' = "exited"
    /\ exitCode' = code

\* Lines 30-48: discoverAll; a rejection is caught at line 178 and exits 1;
\* nothing found exits 1.
MainDiscover ==
    /\ mainPc = "start"
    /\ LET found == discoverAll(sfs, SourceDir)
       IN  /\ components' = found
           /\ discPc' = "discoverAll"
           /\ IF found.threw
                 \/ (Len(found.agents) = 0 /\ Len(found.commands) = 0
                     /\ Len(found.skills) = 0)
              THEN Exit(1)
              ELSE /\ mainPc' = "select"
                   /\ UNCHANGED exitCode
    /\ UNCHANGED <<location, dmVars, promptVars, fsVars, mrVars, instVars, menuVars>>

\* Lines 51-108: the location is chosen, the menu tree built and, unless the
\* root has no children, the menu opened.
MainSelectLocation ==
    /\ mainPc = "select"
    /\ \E loc \in Locations :
          LET root == buildCategoryMenuTree(GroupedComponents(components), loc)
          IN  /\ location' = loc
              /\ targetDir' = getInstallDir(loc)
              /\ IF Len(root.children) = 0
                 THEN /\ Exit(1)
                      /\ UNCHANGED menuVars
                 ELSE /\ OpenMenu(root)
                      /\ mainPc' = "menu"
                      /\ UNCHANGED <<exitCode, toggleObs>>
    /\ UNCHANGED <<selections, results, skillsByCategory, instIdx, instCat, instPre,
                   instPc, dmVars, promptVars, fsVars, mrVars, discVars>>

\* Lines 110-120: the menu has resolved; nothing marked exits 0.
MainAfterMenu ==
    /\ mainPc = "menu" /\ menuPc = "resolved"
    /\ IF Cardinality(selectedItems) = 0
       THEN /\ Exit(0)
            /\ UNCHANGED selections
       ELSE /\ selections' = SelectionsOf(components, selectedItems)
            /\ mainPc' = "confirm"
            /\ UNCHANGED exitCode
    /\ UNCHANGED <<results, skillsByCategory, instIdx, instCat, instPre, targetDir,
                   instPc, location, dmVars, promptVars, fsVars, mrVars, discVars, menuVars>>

\* Lines 159-173: declined exits 0; accepted calls install.
MainConfirm ==
    /\ mainPc = "confirm"
    /\ \E proceed \in BOOLEAN :
          IF proceed
          THEN /\ mainPc' = "install"
               /\ instPc' = "called"
               /\ UNCHANGED exitCode
          ELSE /\ Exit(0)
               /\ UNCHANGED instPc
    /\ UNCHANGED <<selections, results, skillsByCategory, instIdx, instCat, instPre,
                   targetDir, location, dmVars, promptVars, fsVars, mrVars, discVars, menuVars>>

\* Line 175: install returned; the results are displayed and main returns.
MainDisplayResults ==
    /\ mainPc = "install" /\ instPc = "done"
    /\ Exit(0)
    /\ UNCHANGED <<location, dmVars, promptVars, fsVars, mrVars, discVars, instVars, menuVars>>

\* Lines 178-184: install rejected; the error is printed and the exit code is 1.
MainCatch ==
    /\ mainPc = "install" /\ instPc = "failed"
    /\ Exit(1)
    /\ UNCHANGED <<location, dmVars, promptVars, fsVars, mrVars, discVars, instVars, menuVars>>

(***************************************************************************)
(* prompts.ts, sequential mode: selectAgents, selectCommands, selectSkills. *)
(* A checkbox prompt is recorded as its message, its choices with their    *)
(* default marks, and its answer: the values the user left checked, in     *)
(* choice order.  The user's input is the set of positions left checked.   *)
(***************************************************************************)
DEFAULT_SUGGESTED_CATEGORIES_GLOBAL == <<"code-quality", "shared">>
DEFAULT_SUGGESTED_CATEGORIES_LOCAL == <<"code-quality", "shared", "frontend", "backend">>

\* Array.prototype.includes
Includes(seq, x) == \E i \in 1..Len(seq) : seq[i] = x

\* items.map((item) => ({ value: item, checked }))
Choices(items, checked) ==
    [i \in 1..Len(items) |-> [value |-> items[i], checked |-> checked]]

\* What checkbox resolves to: the values at the positions left checked.
Answer(choices, kept) ==
    Items(SelectSeq([i \in 1..Len(choices) |-> [i |-> i, x |-> choices[i].value]],
                    LAMBDA e : e.i \in kept))

checkbox(message, choices, kept) ==
    [message |-> message, choices |-> choices, answer |-> Answer(choices, kept)]

NoPrompt == [shown |-> <<>>, selected |-> <<>>]

\* selectAgents(agents)
selectAgents(agents, kept) ==
    IF Len(agents) = 0
    THEN NoPrompt
    ELSE LET prompt == checkbox("Select agents to install:", Choices(agents, TRUE), kept)
         IN  [shown |-> <<prompt>>, selected |-> prompt.answer]

\* selectCommands(commands)
selectCommands(commands, kept) ==
    IF Len(commands) = 0
    THEN NoPrompt
    ELSE LET prompt ==
                 checkbox("Select commands to install:", Choices(commands, TRUE), kept)
         IN  [shown |-> <<prompt>>, selected |-> prompt.answer]

SuggestedCategories(loc) ==
    IF loc = "global"
    THEN DEFAULT_SUGGESTED_CATEGORIES_GLOBAL
    ELSE DEFAULT_SUGGESTED_CATEGORIES_LOCAL

\* Mutant of IsSuggestedCategory: every category is suggested.
IsSuggestedCategoryAlways(suggestedCategories, categoryName) == TRUE

\* suggestedCategories.includes(categoryName)
IsSuggestedCategory(suggestedCategories, categoryName) ==
    Includes(suggestedCategories, categoryName)

\* Mutant of KeepsEntry: every prompted category gets a key.
KeepsEntryAlways(selected) == TRUE

\* if (selected.length > 0) selectedSkills[categoryName] = selected
KeepsEntry(selected) == Len(selected) > 0

\* The loop of selectSkills over Object.keys(skillCategories); skillCategories
\* is the sequence of the record's entries in key order, kept[i] the positions
\* the user leaves checked in the prompt of the i-th category, and selected
\* the record selectedSkills as a function from its keys.
RECURSIVE SelectSkillsLoop(_, _, _, _)
SelectSkillsLoop(skillCategories, suggestedCategories, kept, acc) ==
    IF skillCategories = <<>>
    THEN acc
    ELSE LET category == Head(skillCategories)
             prompt ==
                 checkbox("Select " \o category.name \o " skills to install:",
                          Choices(category.skills,
                                  IsSuggestedCategory(suggestedCategories,
                                                      category.name)),
                          Head(kept))
             next ==
                 IF Len(category.skills) = 0
                 THEN acc
                 ELSE [shown |-> Append(acc.shown, prompt),
                       selected |->
                           IF KeepsEntry(prompt.answer)
                           THEN (category.name :> prompt.answer) @@ acc.selected
                           ELSE acc.selected]
         IN  SelectSkillsLoop(Tail(skillCategories), suggestedCategories,
                              Tail(kept), next)

\* selectSkills(skillCategories, location)
selectSkills(skillCategories, loc, kept) ==
    SelectSkillsLoop(skillCategories, SuggestedCategories(loc), kept, NoPrompt)

\* The answers a user can give to a prompt over items: any set of positions.
Keeps(items) == SUBSET (1..Len(items))

\* One answer for each category, in key order.
RECURSIVE CategoryKeeps(_)
CategoryKeeps(skillCategories) ==
    IF skillCategories = <<>>
    THEN {<<>>}
    ELSE {<<kept>> \o rest : kept \in Keeps(Head(skillCategories).skills),
                              rest \in CategoryKeeps(Tail(skillCategories))}

\* main of the sequential CLI: the three selections make up the Selection.
SelectAgentsCall ==
    /\ mainPc = "selectAgents"
    /\ \E kept \in Keeps(components.agents) :
          LET r == selectAgents(components.agents, kept)
          IN  /\ prompts' = prompts \o r.shown
              /\ selections' = [selections EXCEPT !.agents = r.selected]
    /\ mainPc' = "selectCommands"
    /\ UNCHANGED <<cart, location, exitCode, results, skillsByCategory, instIdx,
                   instCat, instPre, targetDir, instPc,
                   dmVars, fsVars, mrVars, discVars, menuVars>>

SelectCommandsCall ==
    /\ mainPc = "selectCommands"
    /\ \E kept \in Keeps(components.commands) :
          LET r == selectCommands(components.commands, kept)
          IN  /\ prompts' = prompts \o r.shown
              /\ selections' = [selections EXCEPT !.commands = r.selected]
    /\ mainPc' = "selectSkills"
    /\ UNCHANGED <<cart, location, exitCode, results, skillsByCategory, instIdx,
                   instCat, instPre, targetDir, instPc,
                   dmVars, fsVars, mrVars, discVars, menuVars>>

SelectSkillsCall ==
    /\ mainPc = "selectSkills"
    /\ \E kept \in CategoryKeeps(components.skillCategories) :
          LET r == selectSkills(components.skillCategories, location, kept)
          IN  /\ prompts' = prompts \o r.shown
              /\ selections' = [selections EXCEPT !.skills = r.selected]
    /\ mainPc' = "selected"
    /\ UNCHANGED <<cart, location, exitCode, results, skillsByCategory, instIdx,
                   instCat, instPre, targetDir, instPc,
                   dmVars, fsVars, mrVars, discVars, menuVars>>

\* The inventories of the sequential CLI: up to two agents, one command, and
\* any of five skill categories, each without skills or with its skills.
SequentialAgents ==
    {<<>>, <<[name |-> "reviewer"]>>, <<[name |-> "reviewer"], [name |-> "planner"]>>}
SequentialCommands == {<<>>, <<[name |-> "deploy"]>>}
FileSkill(name) == [name |-> name, type |-> "file"]
DirectorySkill(name) == [name |-> name, type |-> "directory"]
FullCategories ==
    <<[name |-> "backend", skills |-> <<DirectorySkill("api")>>],
      [name |-> "code-quality", skills |-> <<FileSkill("lint"), FileSkill("tests")>>],
      [name |-> "custom", skills |-> <<FileSkill("notes")>>],
      [name |-> "frontend", skills |-> <<DirectorySkill("react")>>],
      [name |-> "shared", skills |-> <<FileSkill("git")>>]>>
SkillCategoryRecords ==
    UNION {{[i \in 1..Len(cats) |->
                 [name |-> cats[i].name,
                  skills |-> IF i \in empty THEN <<>> ELSE cats[i].skills]] :
            empty \in SUBSET (1..Len(cats))} :
           cats \in {Items(e) : e \in SubSeqs(FullCategories)}}

SequentialInit ==
    /\ sfs = <<>>
    /\ tfs = <<>>
    /\ opLog = <<>>
    /\ \E agents \in SequentialAgents, commands \in SequentialCommands,
          skillCategories \in SkillCategoryRecords :
          /\ components = [threw |-> FALSE, agents |-> agents, commands |-> commands,
                           skillCategories |-> skillCategories]
          /\ Len(agents) + Len(commands)
                + Len(Flatten([i \in 1..Len(skillCategories) |->
                                   skillCategories[i].skills])) > 0
    /\ discPc = "discoverAll"
    /\ InstIdle
    /\ MenuIdle
    /\ location \in Locations
    /\ exitCode = 0 - 1
    /\ mainPc = "selectAgents"
    /\ PromptIdle

(***************************************************************************)
(* prompts.ts and cli.js, shopping-cart flow.  A CartItem is its type,     *)
(* name and category; displayName is only printed.                         *)
(***************************************************************************)
\* items.filter((x) => x.category === category)
Offered(items, category) == SelectSeq(items, LAMBDA item : item.category = category)

\* The checkbox over the items of one category, or no prompt when there are none.
selectOfCategory(items, category, message, checked, kept) ==
    LET offered == Offered(items, category)
    IN  IF Len(offered) = 0
        THEN NoPrompt
        ELSE LET prompt == checkbox(message, Choices(offered, checked), kept)
             IN  [shown |-> <<prompt>>, selected |-> prompt.answer]

selectGeneralAgents(agents, kept) ==
    selectOfCategory(agents, "general", "Select agents:", TRUE, kept)

selectProjectAgents(agents, category, kept) ==
    selectOfCategory(agents, category, "Select agents:", FALSE, kept)

selectGeneralCommands(commands, kept) ==
    selectOfCategory(commands, "general", "Select commands:", TRUE, kept)

selectProjectCommands(commands, category, kept) ==
    selectOfCategory(commands, category, "Select commands:", FALSE, kept)

\* selectSkillsByCategory(skillCategories, category, location), for a category
\* that is a key of skillCategories.
selectSkillsByCategory(skillCategory, loc, kept) ==
    IF Len(skillCategory.skills) = 0
    THEN NoPrompt
    ELSE LET prompt ==
                 checkbox("Select skills:",
                          Choices(skillCategory.skills,
                                  IsSuggestedCategory(SuggestedCategories(loc),
                                                      skillCategory.name)),
                          kept)
         IN  [shown |-> <<prompt>>, selected |-> prompt.answer]

\* selected.forEach((x) => cart.push({type, name: x.name, category: x.category}))
CartItemsOf(type, selected) ==
    [i \in 1..Len(selected) |->
        [type |-> type, name |-> selected[i].name, category |-> selected[i].category]]

\* s.name.split('/')[0]: the name of a discovered skill is a directory entry
\* and holds no '/', so the first segment is the whole name.
FirstSegment(name) == name

SkillCartItems(selected) ==
    [i \in 1..Len(selected) |->
        [type |-> "skill", name |-> selected[i].name,
         category |-> IF selected[i].type = "directory"
                      THEN FirstSegment(selected[i].name)
                      ELSE "general"]]

\* The general prompt and, for a local installation, the frontend and the
\* backend prompt: lines 33-58 for agents, 60-85 for commands.
CartAgents ==
    /\ mainPc = "cartAgents"
    /\ \E g \in Keeps(Offered(components.agents, "general")),
          f \in Keeps(Offered(components.agents, "frontend")),
          b \in Keeps(Offered(components.agents, "backend")) :
          LET general == selectGeneralAgents(components.agents, g)
              frontend == IF location = "local"
                          THEN selectProjectAgents(components.agents, "frontend", f)
                          ELSE NoPrompt
              backend == IF location = "local"
                         THEN selectProjectAgents(components.agents, "backend", b)
                         ELSE NoPrompt
          IN  /\ prompts' = prompts \o general.shown \o frontend.shown \o backend.shown
              /\ cart' = cart \o CartItemsOf("agent", general.selected)
                              \o CartItemsOf("agent", frontend.selected)
                              \o CartItemsOf("agent", backend.selected)
    /\ mainPc' = "cartCommands"
    /\ UNCHANGED <<location, exitCode, dmVars, fsVars, mrVars, discVars, instVars,
                   menuVars>>

CartCommands ==
    /\ mainPc = "cartCommands"
    /\ \E g \in Keeps(Offered(components.commands, "general")),
          f \in Keeps(Offered(components.commands, "frontend")),
          b \in Keeps(Offered(components.commands, "backend")) :
          LET general == selectGeneralCommands(components.commands, g)
              frontend == IF location = "local"
                          THEN selectProjectCommands(components.commands, "frontend", f)
                          ELSE NoPrompt
              backend == IF location = "local"
                         THEN selectProjectCommands(components.commands, "backend", b)
                         ELSE NoPrompt
          IN  /\ prompts' = prompts \o general.shown \o frontend.shown \o backend.shown
              /\ cart' = cart \o CartItemsOf("command", general.selected)
                              \o CartItemsOf("command", frontend.selected)
                              \o CartItemsOf("command", backend.selected)
    /\ mainPc' = "cartSkills"
    /\ UNCHANGED <<location, exitCode, dmVars, fsVars, mrVars, discVars, instVars,
                   menuVars>>

\* Object.keys(components.skillCategories).sort(): the categories in name order.
CategoryNameOrder == <<"backend", "code-quality", "custom", "frontend", "shared">>

SortedCategories(skillCategories) ==
    Flatten([i \in 1..Len(CategoryNameOrder) |->
                SelectSeq(skillCategories, LAMBDA c : c.name = CategoryNameOrder[i])])

\* The loop of lines 87-98 over the sorted categories.
RECURSIVE CartSkillsLoop(_, _, _, _)
CartSkillsLoop(skillCategories, loc, kept, acc) ==
    IF skillCategories = <<>>
    THEN acc
    ELSE LET r == selectSkillsByCategory(Head(skillCategories), loc, Head(kept))
         IN  CartSkillsLoop(Tail(skillCategories), loc, Tail(kept),
                            [shown |-> acc.shown \o r.shown,
                             selected |-> acc.selected \o SkillCartItems(r.selected)])

CartSkills ==
    /\ mainPc = "cartSkills"
    /\ LET sorted == SortedCategories(components.skillCategories)
       IN  \E kept \in CategoryKeeps(sorted) :
              LET r == CartSkillsLoop(sorted, location, kept, NoPrompt)
              IN  /\ prompts' = prompts \o r.shown
                  /\ cart' = cart \o r.selected
    /\ mainPc' = "cartSummary"
    /\ UNCHANGED <<location, exitCode, dmVars, fsVars, mrVars, discVars, instVars,
                   menuVars>>

\* cart.some((c) => c.type === type && c.name === name)
InCart(items, type, name) ==
    \E i \in 1..Len(items) : items[i].type = type /\ items[i].name = name

\* cart.some((c) => c.type === 'command' && c.name === c.name): the inner c
\* hides the command being filtered, so the test is whether the cart holds
\* any command at all.
AnyCommandInCart(items) ==
    \E i \in 1..Len(items) : items[i].type = "command" /\ items[i].name = items[i].name

\* Object.fromEntries(Object.entries(skillCategories).map(...)): a key for
\* every category, as a function from the keys.
SkillsFromCart(skillCategories, items) ==
    [name \in {c.name : c \in Range(skillCategories)} |->
        LET catData == CHOOSE c \in Range(skillCategories) : c.name = name
        IN  SelectSeq(catData.skills, LAMBDA k : InCart(items, "skill", k.name))]

\* Lines 122-130: the cart converted to the selections format.
CartSelections(comps, items) ==
    [agents |-> SelectSeq(comps.agents, LAMBDA a : InCart(items, "agent", a.name)),
     commands |-> SelectSeq(comps.commands, LAMBDA c : AnyCommandInCart(items)),
     skills |-> SkillsFromCart(comps.skillCategories, items)]

\* Lines 100-132: nothing in the cart ends the run with status 0; otherwise
\* the user confirms, and on yes the selections are handed to install.
CartConfirm ==
    /\ mainPc = "cartSummary"
    /\ IF Len(cart) = 0
       THEN Exit(0) /\ UNCHANGED <<selections, instPc>>
       ELSE \E proceed \in BOOLEAN :
               IF proceed
               THEN /\ selections' = CartSelections(components, cart)
                    /\ instPc' = "called"
                    /\ mainPc' = "install"
                    /\ UNCHANGED exitCode
               ELSE Exit(0) /\ UNCHANGED <<selections, instPc>>
    /\ UNCHANGED <<location, prompts, cart, results, skillsByCategory, instIdx,
                   instCat, instPre, targetDir,
                   dmVars, fsVars, mrVars, discVars, menuVars>>

\* The inventories of the cart flow: agents and commands of two categories
\* and the skill categories of the sequential flow.
Component(name, category) == [name |-> name, category |-> category]
CartAgentLists ==
    {Items(e) : e \in SubSeqs(<<Component("reviewer", "general"),
                                Component("designer", "frontend")>>)}
CartCommandLists ==
    {Items(e) : e \in SubSeqs(<<Component("deploy", "general"),
                                Component("build", "frontend")>>)}

CartInit ==
    /\ sfs = <<>>
    /\ tfs = <<>>
    /\ opLog = <<>>
    /\ \E agents \in CartAgentLists, commands \in CartCommandLists,
          skillCategories \in SkillCategoryRecords :
          /\ components = [threw |-> FALSE, agents |-> agents, commands |-> commands,
                           skillCategories |-> skillCategories]
          /\ Len(agents) + Len(commands)
                + Len(Flatten([i \in 1..Len(skillCategories) |->
                                   skillCategories[i].skills])) > 0
    /\ discPc = "discoverAll"
    /\ InstIdle
    /\ MenuIdle
    /\ location \in Locations
    /\ exitCode = 0 - 1
    /\ mainPc = "cartAgents"
    /\ PromptIdle

\* Lines 78-100 on their own: the inventory is grouped and the tree built
\* for a location.
BuildCategoryMenuTreeCall ==
    /\ mainPc = "group"
    /\ \E loc \in Locations :
          /\ location' = loc
          /\ menuRoot' = buildCategoryMenuTree(GroupedComponents(components), loc)
    /\ mainPc' = "built"
    /\ UNCHANGED <<menuPath, currentItems, selectedIndex, selectedItems, rawMode,
                   listening, menuPc, toggleObs, exitCode,
                   dmVars, promptVars, fsVars, mrVars, discVars, instVars>>

\* Lines 116-120 on their own: a set of marked leaf ids is mapped back to
\* components.
MapSelectedIdsCall ==
    /\ mainPc = "built"
    /\ \E ids \in SUBSET LeafIdsOf(menuRoot) :
          /\ selectedItems' = ids
          /\ selections' = SelectionsOf(components, ids)
    /\ mainPc' = "mapped"
    /\ UNCHANGED <<menuRoot, menuPath, currentItems, selectedIndex, rawMode,
                   listening, menuPc, toggleObs, location, exitCode,
                   results, skillsByCategory, instIdx, instCat, instPre, targetDir,
                   instPc, dmVars, promptVars, fsVars, mrVars, discVars>>

\* The inventories main goes on with: discovery returned and found something.
TreeInit ==
    /\ sfs \in SourceTrees
    /\ tfs = <<>>
    /\ opLog = <<>>
    /\ components = discoverAll(sfs, SourceDir)
    /\ ~components.threw
    /\ Len(components.agents) + Len(components.commands) + Len(components.skills) > 0
    /\ discPc = "discoverAll"
    /\ InstIdle
    /\ MenuIdle
    /\ location = "none"
    /\ exitCode = 0 - 1
    /\ mainPc = "group"

(***************************************************************************)
(* The trees, targets and menus main and the menu are exercised on.        *)
(***************************************************************************)
\* One agent in backend, one command in general, and under the skill
\* category shared of general a file-skill a.md and a directory b with
\* SKILL.md and a rules fragment. The agent's rules file holds {}.
ScenarioTree ==
    LET general == CategoryDir("general")
        backend == CategoryDir("backend")
        shared == join(join(general, "skills"), "shared")
        tree == FsUnion(FsUnion(FsUnion(
                    DirWith(join(backend, "agents"), {"reviewer.md", "reviewer-rules.json"}),
                    DirWith(join(general, "commands"), {"deploy.md"})),
                    DirWith(shared, {"a.md"})),
                    DirWith(join(shared, "b"), {"SKILL.md", "skill-rules-fragment.json"}))
    IN  Put(tree, join(join(backend, "agents"), "reviewer-rules.json"),
            FileNode(JsonText("raw", EmptyObj)))

\* A tree with nothing to discover, and one whose general/agents is a file.
EmptyTree == MkFs({SourceDir}, <<>>)
BrokenTree ==
    MkFs({SourceDir},
         [p \in {join(CategoryDir("general"), "agents")} |-> Text("agents")])

MainTrees == {ScenarioTree, EmptyTree, BrokenTree}

\* The targets: nothing there, or a file standing where ./.claude would go.
MainTargets == {<<>>, MkFs({}, [p \in {<<".claude">>} |-> Text("claude")])}

MainInit ==
    /\ sfs \in MainTrees
    /\ tfs \in MainTargets
    /\ opLog = <<>>
    /\ components = NoComponents
    /\ discPc = "idle"
    /\ InstIdle
    /\ MenuIdle
    /\ location = "none"
    /\ exitCode = 0 - 1
    /\ mainPc = "start"

\* The menus of the scenario's inventory, opened.
MenuInit ==
    /\ sfs = ScenarioTree
    /\ tfs = <<>>
    /\ opLog = <<>>
    /\ components = discoverAll(sfs, SourceDir)
    /\ discPc = "discoverAll"
    /\ InstIdle
    /\ location \in Locations
    /\ MenuOpened(buildCategoryMenuTree(GroupedComponents(components), location))
    /\ toggleObs = NoToggle
    /\ exitCode = 0 - 1
    /\ mainPc = "menu"

FsIdle ==
    /\ sfs = <<>>
    /\ tfs = <<>>
    /\ opLog = <<>>

(***************************************************************************)
(* Specifications.                                                         *)
(***************************************************************************)
\* deepMerge alone, on every pair of objects of JsonObjects.
InitDeepMerge == DmInit /\ FsIdle /\ MrIdle /\ DiscIdle /\ InstIdle /\ MenuIdle /\ MainIdle /\ PromptIdle
NextDeepMerge == DeepMergeCall
SpecDeepMerge == InitDeepMerge /\ [][NextDeepMerge]_vars

\* The three entry points of config-merger.ts on rule files.
InitRules == MrInit /\ DmIdle /\ DiscIdle /\ InstIdle /\ MenuIdle /\ MainIdle /\ PromptIdle
NextRules ==
    \/ MergeAllRulesCall
    \/ MergeAgentRulesCall
    \/ MergeSkillRulesFragmentCall
SpecRules == InitRules /\ [][NextRules]_vars

\* The discovery scans on the source trees.
InitDiscover == DiscInit /\ DmIdle /\ MrIdle /\ InstIdle /\ MenuIdle /\ MainIdle /\ PromptIdle
NextDiscover ==
    \/ DiscoverAgentsCall
    \/ DiscoverAgentsFlatCall
    \/ DiscoverCommandsCall
    \/ DiscoverSkillsCall
    \/ DiscoverAllCall
SpecDiscover == InitDiscover /\ [][NextDiscover]_vars

\* install on every sub-selection of the inventory of InstallTree.
InitInstall == InstInit /\ DmIdle /\ MrIdle /\ MenuIdle /\ MainIdle /\ PromptIdle
NextInstall ==
    \/ InstallBegin
    \/ InstallAgentsDir
    \/ InstallAgentCopy
    \/ InstallCommandsDir
    \/ InstallCommandCopy
    \/ InstallSkillsDir
    \/ InstallSkillCategoryDir
    \/ InstallSkillCopy
    \/ InstallMerge
SpecInstall == InitInstall /\ [][NextInstall]_vars

\* The keys of interactiveMenu, with the toggles observed.
InitMenu == MenuInit /\ DmIdle /\ MrIdle /\ PromptIdle
NextMenu ==
    \/ KeyCtrlC /\ Unobserved
    \/ KeyDown /\ NavigationSeen
    \/ KeyUp /\ NavigationSeen
    \/ KeySpace /\ ToggleSeen
    \/ KeyEnter /\ NavigationSeen
    \/ KeyBack /\ NavigationSeen
    \/ KeyFinish /\ Unobserved
    \/ KeyOther /\ Unobserved
SpecMenu == InitMenu /\ [][NextMenu]_vars

\* buildCategoryMenuTree and the mapping of marked ids, on every inventory.
InitTree == TreeInit /\ DmIdle /\ MrIdle /\ PromptIdle
NextTree ==
    \/ BuildCategoryMenuTreeCall
    \/ MapSelectedIdsCall
SpecTree == InitTree /\ [][NextTree]_vars

\* The prompts of the sequential CLI on every inventory and answer.
InitSequential == SequentialInit /\ DmIdle /\ MrIdle
NextSequential ==
    \/ SelectAgentsCall
    \/ SelectCommandsCall
    \/ SelectSkillsCall
SpecSequential == InitSequential /\ [][NextSequential]_vars

\* main of the shopping-cart CLI from the first prompt to the call of install.
InitCart == CartInit /\ DmIdle /\ MrIdle
NextCart ==
    \/ CartAgents
    \/ CartCommands
    \/ CartSkills
    \/ CartConfirm
SpecCart == InitCart /\ [][NextCart]_vars

\* main from its first line to the exit of the process.
Init == MainInit /\ DmIdle /\ MrIdle /\ PromptIdle
Next ==
    \/ MainDiscover
    \/ MainSelectLocation
    \/ KeyCtrlC /\ Unobserved
    \/ KeyDown /\ Unobserved
    \/ KeyUp /\ Unobserved
    \/ KeySpace /\ Unobserved
    \/ KeyEnter /\ Unobserved
    \/ KeyBack /\ Unobserved
    \/ KeyFinish /\ Unobserved
    \/ KeyOther /\ Unobserved
    \/ MainAfterMenu
    \/ MainConfirm
    \/ InstallBegin
    \/ InstallAgentsDir
    \/ InstallAgentCopy
    \/ InstallCommandsDir
    \/ InstallCommandCopy
    \/ InstallSkillsDir
    \/ InstallSkillCategoryDir
    \/ InstallSkillCopy
    \/ InstallMerge
    \/ MainDisplayResults
    \/ MainCatch
Spec == Init /\ [][Next]_vars

(***************************************************************************)
(* Vocabulary of the claims about merging.                                 *)
(***************************************************************************)
IsPlainObject(x) == x.t = "obj"
\* A value that ends a key path: a scalar, null or an array.
IsLeafValue(x) == x.t \notin {"obj", "undef"}

\* The key paths of x: every non-empty sequence of keys leading to a value.
RECURSIVE PathsFrom(_)
PathsFrom(x) ==
    UNION {{<<k>>} \cup
           {<<k>> \o p : p \in (IF IsPlainObject(Get(x, k))
                                THEN PathsFrom(Get(x, k)) ELSE {})} :
           k \in ObjectKeys(x)}

\* The value of x at a key path, undefined when the path leaves x.
RECURSIVE At(_, _)
At(x, p) == IF p = <<>> THEN x ELSE At(Get(x, Head(p)), Tail(p))

ProperPrefixes(p) == {SubSeq(p, 1, n) : n \in 1..(Len(p) - 1)}

\* x sets an ancestor of path p to a value that is no plain object.
ReplacesAncestor(x, p) == \E q \in ProperPrefixes(p) : IsLeafValue(At(x, q))

\* An independent statement of what a merge result must be, key by key.
RECURSIVE MergedAsClaimed(_, _, _)
MergedAsClaimed(A, B, R) ==
    /\ \A k \in DOMAIN B.v \ DOMAIN A.v : k \in DOMAIN R.v /\ R.v[k] = B.v[k]
    /\ \A k \in DOMAIN A.v \ DOMAIN B.v : k \in DOMAIN R.v /\ R.v[k] = A.v[k]
    /\ \A k \in DOMAIN A.v \cap DOMAIN B.v :
          (IsPlainObject(A.v[k]) /\ IsPlainObject(B.v[k])) =>
             /\ k \in DOMAIN R.v
             /\ IsPlainObject(R.v[k])
             /\ MergedAsClaimed(A.v[k], B.v[k], R.v[k])

(***************************************************************************)
(* C1. For all JSON objects A and B the result R of deepMerge(A, B) holds  *)
(* B's value at every key only in B, A's value at every key only in A,     *)
(* and at every key whose two values are plain objects a result of which   *)
(* the same is true again; and deepMerge(R, {}) = R.                       *)
(***************************************************************************)
C1_DeepMergeContract ==
    dmPc = "returned" =>
        /\ MergedAsClaimed(dmTarget, dmSource, dmResult)
        /\ deepMerge(dmResult, EmptyObj) = dmResult

\* A merge that recursed into a key whose two objects each hold a key the
\* other lacks.
C1_Witness ==
    /\ dmPc = "returned"
    /\ \E k \in DOMAIN dmTarget.v \cap DOMAIN dmSource.v :
          /\ IsPlainObject(dmTarget.v[k]) /\ IsPlainObject(dmSource.v[k])
          /\ DOMAIN dmTarget.v[k].v \ DOMAIN dmSource.v[k].v # {}
          /\ DOMAIN dmSource.v[k].v \ DOMAIN dmTarget.v[k].v # {}
    /\ DOMAIN dmTarget.v # DOMAIN dmSource.v

(***************************************************************************)
(* C2. Where the source holds an array at key k the result holds exactly   *)
(* that array, whatever the target held at k; and where the target holds   *)
(* an array at k and the source any value, the result holds the source's   *)
(* value.                                                                  *)
(***************************************************************************)
C2_ArraysReplaced ==
    dmPc = "returned" =>
        \A k \in DOMAIN dmSource.v :
            (IsArray(dmSource.v[k]) \/ IsArray(Get(dmTarget, k))) =>
                dmResult.v[k] = dmSource.v[k]

\* A merge in which both sides held different arrays at one key, and one in
\* which an array met an object.
C2_Witness ==
    /\ dmPc = "returned"
    /\ \E k \in DOMAIN dmSource.v :
          /\ IsArray(dmSource.v[k]) /\ IsArray(Get(dmTarget, k))
          /\ dmSource.v[k] # Get(dmTarget, k)
    /\ \E k \in DOMAIN dmSource.v :
          IsPlainObject(dmSource.v[k]) /\ IsArray(Get(dmTarget, k))

(***************************************************************************)
(* Vocabulary of the claims about mergeAllRules.                           *)
(***************************************************************************)
MergeAllReturned == mrPc = "returned" /\ mrReturn.fn = "mergeAllRules"
\* What readJsonFile gave for the i-th rule source.
SourceValue(i) == readJsonFile(sfs, mrSources[i])
\* The sources the call merged.
MergedSources == {i \in 1..Len(mrSources) : Truthy(SourceValue(i))}
\* The document held by skill-rules.json now, and when the call began.
WrittenDoc == OrEmpty(readJsonFile(tfs, SkillRulesPath))
PriorDoc ==
    IF mrPre.kind = "file"
    THEN LET parsed == JSONParse(mrPre.content)
         IN  IF parsed.threw THEN EmptyObj ELSE OrEmpty(parsed.value)
    ELSE EmptyObj
\* The i-th source is missing or holds text that is not JSON.
MissingOrMalformed(i) ==
    \/ ~pathExists(sfs, mrSources[i])
    \/ sfs[mrSources[i]].content = Garbage
\* The i-th source is a file holding a JSON object.
HoldsJsonObject(i) ==
    /\ pathExists(sfs, mrSources[i])
    /\ sfs[mrSources[i]].content.type = "json"
    /\ IsPlainObject(sfs[mrSources[i]].content.json)
\* Source i is the last merged source that holds a value at path p.
LastToDefine(i, p) ==
    /\ i \in MergedSources
    /\ p \in PathsFrom(SourceValue(i))
    /\ \A j \in MergedSources : j > i => p \notin PathsFrom(SourceValue(j))

(***************************************************************************)
(* C3 as stated. After mergeAllRules has written, every leaf key path      *)
(* holds the value of the last source in the list that defines it.         *)
(***************************************************************************)
C3_LastDefinerWins_Original ==
    (MergeAllReturned /\ ~mrReturn.threw /\ mrReturn.count > 0) =>
        \A i \in MergedSources : \A p \in PathsFrom(SourceValue(i)) :
            (LastToDefine(i, p) /\ IsLeafValue(At(SourceValue(i), p))) =>
                At(WrittenDoc, p) = At(SourceValue(i), p)

(***************************************************************************)
(* C3 amended. After mergeAllRules has written, every leaf key path holds  *)
(* the value of the last source in the list that defines it, provided no   *)
(* later source sets an ancestor of that path to a value that is no plain  *)
(* object (such a value replaces the whole subtree).                       *)
(***************************************************************************)
C3_LastDefinerWins ==
    (MergeAllReturned /\ ~mrReturn.threw /\ mrReturn.count > 0) =>
        \A i \in MergedSources : \A p \in PathsFrom(SourceValue(i)) :
            (/\ LastToDefine(i, p)
             /\ IsLeafValue(At(SourceValue(i), p))
             /\ \A j \in MergedSources :
                   j > i => ~ReplacesAncestor(SourceValue(j), p)) =>
                At(WrittenDoc, p) = At(SourceValue(i), p)

\* Three fragments in a row (the existing document, then two sources) give one
\* nested leaf path three different values, and the written document holds
\* the last one.
C3_Witness ==
    /\ MergeAllReturned /\ ~mrReturn.threw
    /\ \E i, j \in MergedSources : \E p \in PathsFrom(SourceValue(j)) :
          /\ i < j
          /\ Len(p) = 2
          /\ LastToDefine(j, p)
          /\ IsLeafValue(At(SourceValue(j), p))
          /\ IsLeafValue(At(SourceValue(i), p))
          /\ IsLeafValue(At(PriorDoc, p))
          /\ At(SourceValue(i), p) # At(SourceValue(j), p)
          /\ At(PriorDoc, p) # At(SourceValue(j), p)
          /\ At(PriorDoc, p) # At(SourceValue(i), p)
          /\ At(WrittenDoc, p) = At(SourceValue(j), p)

(***************************************************************************)
(* C4. When every source passed to mergeAllRules is missing or malformed,  *)
(* the call writes nothing and returns 0: skill-rules.json is as it was.   *)
(***************************************************************************)
C4_NoValidSourceNoWrite ==
    (MergeAllReturned /\ \A i \in 1..Len(mrSources) : MissingOrMalformed(i)) =>
        /\ ~mrReturn.threw
        /\ mrReturn.count = 0
        /\ opLog = <<>>
        /\ NodeAt(tfs, SkillRulesPath) = mrPre

\* A call with a missing and a malformed source, on an existing document.
C4_Witness ==
    /\ MergeAllReturned
    /\ \A i \in 1..Len(mrSources) : MissingOrMalformed(i)
    /\ \E i \in 1..Len(mrSources) : ~pathExists(sfs, mrSources[i])
    /\ \E i \in 1..Len(mrSources) : pathExists(sfs, mrSources[i])
    /\ mrPre.kind = "file"

\* The sources of the list that hold a JSON object, in list order.
RECURSIVE ObjectSourcesOnly(_, _)
ObjectSourcesOnly(ruleSources, n) ==
    IF n = 0 THEN <<>>
    ELSE IF HoldsJsonObject(n)
         THEN Append(ObjectSourcesOnly(ruleSources, n - 1), ruleSources[n])
         ELSE ObjectSourcesOnly(ruleSources, n - 1)

(***************************************************************************)
(* C5. In mergeAllRules a source that is missing, unreadable or does not   *)
(* parse as a JSON object (valid JSON that is an array, string, number,    *)
(* boolean or null included) is skipped: the count returned is the number  *)
(* of sources holding a JSON object, and the document is what merging      *)
(* those sources alone gives.                                              *)
(***************************************************************************)
C5_NonObjectSourcesSkipped ==
    (MergeAllReturned /\ ~mrReturn.threw) =>
        /\ mrReturn.count =
              Cardinality({i \in 1..Len(mrSources) : HoldsJsonObject(i)})
        /\ tfs = mergeAllRules(sfs, RuleTargetFs(IF mrPre.kind = "file"
                                                 THEN mrPre.content
                                                 ELSE Missing),
                               SkillRulesPath,
                               ObjectSourcesOnly(mrSources, Len(mrSources))).fs

(***************************************************************************)
(* C6 as stated. After a merge, every key path the destination held before *)
(* and that no merged source defines is still present with its value.      *)
(***************************************************************************)
MergeReturned == mrPc = "returned" /\ ~mrReturn.threw
\* The sources the returned call merged, whichever entry point it was.
SourcesOfCall ==
    IF mrReturn.fn = "mergeAllRules" THEN MergedSources
    ELSE {i \in 1..Len(mrSources) :
            mrSources[i] = mrReturn.source /\ Truthy(SourceValue(i))}

AgentsReturned ==
    /\ discPc \in {"discoverAgents", "discoverAgentsFlat", "discoverAll"}
    /\ ~components.threw

AgentsFound == Range(components.agents)

\* The .md files of the source tree that have no <name>-rules.json beside them.
OrphanMdFiles ==
    {p \in DOMAIN sfs :
        /\ IsFile(sfs, p)
        /\ EndsWithMd(basename(p))
        /\ ~pathExists(sfs, join(dirname(p), RulesFileName(StripMd(basename(p)))))}

InstallRunning == instPc \notin {"idle", "called"}

CreatedByInstall(path) == path \in DOMAIN tfs /\ path \notin DOMAIN instPre

SkillCategoriesSelected ==
    {selections.skills[i].skillCategory : i \in 1..Len(selections.skills)}

KindPaths == <<Paths.agents, Paths.commands, Paths.skills>>
KindSelected == <<selections.agents, selections.commands, selections.skills>>

(***************************************************************************)
(* C7: every agent reported by discoverAgents has its <name>.md and its    *)
(* <name>-rules.json present in the same directory, and an .md file        *)
(* without the rules file beside it is never reported as an agent.         *)
(***************************************************************************)
C7_AgentsArePaired ==
    AgentsReturned =>
        /\ \A agent \in AgentsFound :
              /\ IsFile(sfs, agent.mdFile)
              /\ IsFile(sfs, agent.rulesFile)
              /\ dirname(agent.mdFile) = dirname(agent.rulesFile)
              /\ basename(agent.mdFile) = agent.name \o ".md"
              /\ basename(agent.rulesFile) = agent.name \o "-rules.json"
        /\ \A agent \in AgentsFound : agent.mdFile \notin OrphanMdFiles

\* A discovery that reported an agent from a directory that also holds an
\* .md file without its rules file.
C7_Witness ==
    /\ AgentsReturned
    /\ \E agent \in AgentsFound : \E p \in OrphanMdFiles :
          dirname(p) = dirname(agent.mdFile)

(***************************************************************************)
(* C8: install makes directories lazily. The directory of a kind is never  *)
(* created when nothing of that kind is selected; after an install that    *)
(* returned, the directory of every kind with a selected item exists; and  *)
(* under skills only the directories of skill categories that have a       *)
(* selected skill are created.                                             *)
(***************************************************************************)
C8_DirectoriesCreatedLazily ==
    InstallRunning =>
        /\ \A k \in 1..3 :
              Len(KindSelected[k]) = 0 =>
                  /\ ~CreatedByInstall(KindPaths[k])
                  /\ \A i \in 1..Len(opLog) : opLog[i] # MkdirOp(KindPaths[k])
        /\ instPc = "done" =>
              \A k \in 1..3 :
                  Len(KindSelected[k]) > 0 => IsDir(tfs, KindPaths[k])
        /\ \A p \in DOMAIN tfs :
              (dirname(p) = Paths.skills /\ CreatedByInstall(p)) =>
                  /\ IsDir(tfs, p)
                  /\ basename(p) \in SkillCategoriesSelected
        /\ instPc = "done" =>
              \A c \in SkillCategoriesSelected : IsDir(tfs, join(Paths.skills, c))

\* An install into nothing that returned, with no agent selected, a command
\* selected, and skills of one skill category selected but not of another.
C8_Witness ==
    /\ instPc = "done"
    /\ instPre = <<>>
    /\ Len(selections.agents) = 0
    /\ Len(selections.commands) > 0
    /\ SkillCategoriesSelected = {"shared"}
    /\ ~pathExists(tfs, Paths.agents)
    /\ IsDir(tfs, Paths.commands)
    /\ IsDir(tfs, join(Paths.skills, "shared"))
    /\ ~pathExists(tfs, join(Paths.skills, "b"))

(***************************************************************************)
(* Vocabulary of the menu and end-to-end properties                        *)
(***************************************************************************)
Xor(a, b) == (a \ b) \cup (b \ a)

\* The ids of the leaves of a menu tree: root, category, kind folder, leaf.
LeafIds(root) ==
    {leaf.id : leaf \in UNION {Range(kind.children) :
        kind \in UNION {Range(cat.children) : cat \in Range(root.children)}}}

FilesOf(fs) == {p \in DOMAIN fs : IsFile(fs, p)}

SharedBTrue == Obj1("shared", Obj1("b", JBool(TRUE)))

\* The files the scenario is said to leave in the target.
ScenarioFiles ==
    {join(Paths.agents, "reviewer.md"),
     join(Paths.agents, "reviewer-rules.json"),
     join(Paths.commands, "deploy.md"),
     join(join(Paths.skills, "shared"), "a.md"),
     join(join(join(Paths.skills, "shared"), "b"), "SKILL.md"),
     Paths.skillRules}

\* The scenario: everything of the scenario tree marked for a local install
\* into an empty target, and install has returned.
ScenarioInstalled ==
    /\ sfs = ScenarioTree
    /\ location = "local"
    /\ mainPc \in {"install", "exited"}
    /\ instPc = "done"
    /\ instPre = <<>>
    /\ LeafIds(menuRoot) \subseteq selectedItems

(***************************************************************************)
(* C9: toggling with space is a pure set-XOR on the one set of marked ids: *)
(* the marks are always the marks before the last toggle XOR the id        *)
(* toggled, whatever cursor moves, folder entries and exits came since;    *)
(* toggling the same id again, with any such navigation in between, gives  *)
(* back the marks before the first toggle; before any toggle nothing is    *)
(* marked.                                                                 *)
(***************************************************************************)
C9_ToggleIsSetXor ==
    menuPc # "idle" =>
        /\ toggleObs.id = "" => selectedItems = {}
        /\ (toggleObs.id # "" /\ ~toggleObs.twice) =>
              selectedItems = Xor(toggleObs.before, {toggleObs.id})
        /\ toggleObs.twice => selectedItems = toggleObs.before

\* A leaf toggled twice with a folder left or entered in between, other
\* marks standing.
C9_Witness ==
    /\ menuPc = "open"
    /\ toggleObs.twice
    /\ toggleObs.navigated
    /\ toggleObs.id \in LeafIds(menuRoot)
    /\ toggleObs.before # {}
    /\ selectedItems = toggleObs.before

(***************************************************************************)
(* C10: in the end-to-end scenario (agent reviewer in backend, command     *)
(* deploy in general, skills a.md and b/ under the skill category shared,  *)
(* the fragment of b holding {"shared":{"b":true}}), everything selected   *)
(* for a local install into an empty target, the target holds exactly      *)
(* agents/reviewer.md, agents/reviewer-rules.json, commands/deploy.md,     *)
(* skills/shared/a.md, skills/shared/b/SKILL.md and a skill-rules.json     *)
(* that holds exactly {"shared":{"b":true}}.                               *)
(***************************************************************************)
C10_EndToEndScenario ==
    ScenarioInstalled =>
        /\ FilesOf(tfs) = ScenarioFiles
        /\ readJsonFile(tfs, Paths.skillRules) = SharedBTrue

(***************************************************************************)
(* Vocabulary of the menu session properties                               *)
(***************************************************************************)
\* The session is over: the promise resolved, or the process ended on
\* Ctrl+C or on an exception thrown by the key handler.
MenuSessionOver == menuPc \in {"resolved", "exited", "crashed"}

(***************************************************************************)
(* C11: raw mode taken by interactiveMenu is released on every exit path:  *)
(* once the session is over (the promise resolved, the process exited on   *)
(* Ctrl+C, or the process terminated because handling a key threw), stdin  *)
(* is no longer in raw mode.                                               *)
(***************************************************************************)
C11_RawModeReleased == MenuSessionOver => ~rawMode

(***************************************************************************)
(* Vocabulary of the menu tree properties                                  *)
(***************************************************************************)
TreeBuilt == mainPc \in {"built", "mapped"}

FolderNodes(root) == {root} \cup CategoryNodes(root) \cup KindNodes(root)

(***************************************************************************)
(* C12: for every inventory and either location, the tree returned by      *)
(* buildCategoryMenuTree holds no folder with zero children: a category    *)
(* branch or a kind sub-folder that would be empty is left out.            *)
(***************************************************************************)
C12_NoEmptyFolders ==
    TreeBuilt => \A folder \in FolderNodes(menuRoot) : Len(folder.children) > 0

(***************************************************************************)
(* C13: in a menu session over a tree built by buildCategoryMenuTree, the  *)
(* cursor is after every sequence of key events a valid index into the     *)
(* current child list (0 <= index < n, as 'j' and 'k' move it modulo n),   *)
(* and no key event throws.                                                *)
(***************************************************************************)
C13_CursorValidNoThrow ==
    /\ menuPc # "crashed"
    /\ menuPc = "open" => HasItem(currentItems, selectedIndex)

(***************************************************************************)
(* C14: the set the menu returns on 'f' is the flat set of marked leaf     *)
(* ids: every id in it is the id of a leaf (type 'file') node of the tree, *)
(* never the id of a folder.                                               *)
(***************************************************************************)
C14_ReturnedIdsAreLeaves ==
    menuPc = "resolved" => selectedItems \subseteq LeafIdsOf(menuRoot)

\* The places of the leaves in a tree: category, kind and leaf position.
LeafPlaces(root) ==
    {<<c, k, l>> \in (1..3) \X (1..3) \X (1..4) :
        /\ c <= Len(root.children)
        /\ k <= Len(root.children[c].children)
        /\ l <= Len(root.children[c].children[k].children)}

LeafAtPlace(root, place) ==
    root.children[place[1]].children[place[2]].children[place[3]]

\* The components of a Selection or inventory carrying a leaf id.
ComponentsWithId(comps, id) ==
    {<<"agent", i>> : i \in {j \in 1..Len(comps.agents) :
                                  "agent:" \o comps.agents[j].name = id}}
    \cup {<<"command", i>> : i \in {j \in 1..Len(comps.commands) :
                                  "command:" \o comps.commands[j].name = id}}
    \cup {<<"skill", i>> : i \in {j \in 1..Len(comps.skills) :
                                  "skill:" \o comps.skills[j].name = id}}

(***************************************************************************)
(* C15: for every inventory of discoverAll the leaf ids of the built tree  *)
(* are pairwise distinct, and each marked leaf id maps back to exactly one *)
(* component of the inventory when main filters it against the marked ids. *)
(***************************************************************************)
C15_LeafIdsUnique ==
    /\ TreeBuilt =>
          \A p, q \in LeafPlaces(menuRoot) :
              LeafAtPlace(menuRoot, p).id = LeafAtPlace(menuRoot, q).id => p = q
    /\ mainPc = "mapped" =>
          \A id \in selectedItems :
              Cardinality(ComponentsWithId(selections, id)) = 1

(***************************************************************************)
(* Vocabulary of the sequential prompt properties                          *)
(***************************************************************************)
\* The suggested sets as the documentation states them.
SmartDefaults(loc) ==
    IF loc = "global"
    THEN {"code-quality", "shared"}
    ELSE {"code-quality", "shared", "frontend", "backend"}

\* What a prompt showed, apart from the answer given.
Shown(prompt) == [message |-> prompt.message, choices |-> prompt.choices]

AllChecked(items) == [i \in 1..Len(items) |-> [value |-> items[i], checked |-> TRUE]]

NonEmptyCategories == SelectSeq(components.skillCategories, LAMBDA c : Len(c.skills) > 0)

\* The prompts a run of the sequential selection is expected to show.
ExpectedAgentPrompts ==
    IF components.agents = <<>>
    THEN <<>>
    ELSE <<[message |-> "Select agents to install:",
            choices |-> AllChecked(components.agents)]>>

ExpectedCommandPrompts ==
    IF components.commands = <<>>
    THEN <<>>
    ELSE <<[message |-> "Select commands to install:",
            choices |-> AllChecked(components.commands)]>>

ExpectedSkillPrompts ==
    [i \in 1..Len(NonEmptyCategories) |->
        LET category == NonEmptyCategories[i]
        IN  [message |-> "Select " \o category.name \o " skills to install:",
             choices |->
                 [j \in 1..Len(category.skills) |->
                     [value |-> category.skills[j],
                      checked |-> category.name \in SmartDefaults(location)]]]]

\* The user changed no mark in any prompt.
DefaultsAccepted ==
    \A i \in 1..Len(prompts) :
        prompts[i].answer =
            Items(SelectSeq([j \in 1..Len(prompts[i].choices) |->
                                 [i |-> j, x |-> prompts[i].choices[j].value]],
                            LAMBDA e : prompts[i].choices[e.i].checked))

SuggestedNonEmpty ==
    {c \in Range(NonEmptyCategories) : c.name \in SmartDefaults(location)}

(***************************************************************************)
(* C16: in sequential mode every agent and every command is shown checked, *)
(* selectSkills shows one prompt per non-empty skill category whose items  *)
(* are all checked iff the category is in the location's suggested set     *)
(* ({code-quality, shared} global, plus frontend and backend local), and a *)
(* user who accepts every default gets all agents, all commands and        *)
(* exactly the skills of the suggested categories.                         *)
(***************************************************************************)
C16_SmartDefaults ==
    mainPc = "selected" =>
        /\ [i \in 1..Len(prompts) |-> Shown(prompts[i])]
              = ExpectedAgentPrompts \o ExpectedCommandPrompts \o ExpectedSkillPrompts
        /\ DefaultsAccepted =>
              /\ selections.agents = components.agents
              /\ selections.commands = components.commands
              /\ DOMAIN selections.skills = {c.name : c \in SuggestedNonEmpty}
              /\ \A c \in SuggestedNonEmpty : selections.skills[c.name] = c.skills

C16_Witness ==
    /\ mainPc = "selected"
    /\ DefaultsAccepted
    /\ location = "local"
    /\ Len(components.agents) = 2
    /\ Len(components.commands) = 1
    /\ {"frontend", "custom", "shared"} \subseteq {c.name : c \in Range(NonEmptyCategories)}
    /\ Len(NonEmptyCategories) < Len(components.skillCategories)
    /\ DOMAIN selections.skills = {"frontend", "shared"}

\* The Selection is complete and goes to install: after selectSkills in the
\* sequential flow, after the conversion of the cart in the cart flow.
SelectionHandedOver == mainPc \in {"selected", "install"}

(***************************************************************************)
(* C17: the skills of the Selection handed to the installer are a sparse   *)
(* map: no category is a key mapped to an empty list, and a category       *)
(* without skills is never prompted (no prompt has an empty choice list).  *)
(***************************************************************************)
C17_SkillsSparse ==
    /\ \A i \in 1..Len(prompts) : Len(prompts[i].choices) > 0
    /\ SelectionHandedOver =>
          \A name \in DOMAIN selections.skills : Len(selections.skills[name]) > 0

(***************************************************************************)
(* Vocabulary of the install order and failure properties                  *)
(***************************************************************************)
Under(path, dir) == Len(path) >= Len(dir) /\ SubSeq(path, 1, Len(dir)) = dir

IsCopy(entry) == entry.op \in {"copyFile", "cp"}
IsMergeCall(entry) == entry.op = "mergeAllRules"
IsThrow(entry) == entry.op = "throw"

\* The stage of install a log entry belongs to: 1 an agent copy, 2 a command
\* copy, 3 a skill copy, 4 the call of mergeAllRules, 0 anything else.
Stage(entry) ==
    IF IsMergeCall(entry) THEN 4
    ELSE IF ~IsCopy(entry) THEN 0
    ELSE IF Under(entry.path, Paths.agents) THEN 1
    ELSE IF Under(entry.path, Paths.commands) THEN 2
    ELSE 3

LogPositions(Test(_)) == {i \in 1..Len(opLog) : Test(opLog[i])}

\* The rule sources a selection collects: the rules file of every agent, then
\* the fragment of every directory-skill that has one.
AgentRuleSources ==
    [i \in 1..Len(selections.agents) |-> selections.agents[i].rulesFile]

FragmentPath(skill) == skill.path \o <<"skill-rules-fragment.json">>

FragmentSources ==
    LET with == SelectSeq(selections.skills,
                          LAMBDA k : k.type = "directory"
                                     /\ FragmentPath(k) \in DOMAIN sfs)
    IN  [i \in 1..Len(with) |-> FragmentPath(with[i])]

CopiesSelected ==
    2 * Len(selections.agents) + Len(selections.commands) + Len(selections.skills)

(***************************************************************************)
(* C18: install copies in a fixed order: every agent copy precedes every   *)
(* command copy and every command copy precedes every skill copy;          *)
(* mergeAllRules is called at most once, only after every copy has         *)
(* completed, with the full list of collected rule sources, and only if    *)
(* that list is non-empty.                                                 *)
(***************************************************************************)
C18_InstallOrder ==
    /\ \A i, j \in 1..Len(opLog) :
          i < j /\ Stage(opLog[i]) # 0 /\ Stage(opLog[j]) # 0
             => Stage(opLog[i]) <= Stage(opLog[j])
    /\ Cardinality(LogPositions(IsMergeCall)) <= 1
    /\ \A m \in LogPositions(IsMergeCall) :
          /\ Cardinality(LogPositions(IsCopy)) = CopiesSelected
          /\ opLog[m].sources = AgentRuleSources \o FragmentSources
          /\ opLog[m].sources # <<>>
    /\ instPc = "done" /\ AgentRuleSources \o FragmentSources # <<>>
          => LogPositions(IsMergeCall) # {}

C18_Witness ==
    /\ instPc = "done"
    /\ LogPositions(IsMergeCall) # {}
    /\ {Stage(opLog[i]) : i \in 1..Len(opLog)} = 0..4
    /\ Len(selections.agents) = 2
    /\ FragmentSources # <<>>

(***************************************************************************)
(* C19: install is not transactional: when a directory creation or a copy  *)
(* fails, the error propagates (install rejects), every copy completed     *)
(* before the failure stays in place, no later call is attempted,          *)
(* mergeAllRules is never called and skill-rules.json is left as it was.   *)
(***************************************************************************)
C19_NotTransactional ==
    LogPositions(IsThrow) # {} =>
        /\ instPc = "failed"
        /\ LogPositions(IsThrow) = {Len(opLog)}
        /\ \A i \in LogPositions(IsCopy) :
              IF opLog[i].op = "copyFile"
              THEN IsFile(tfs, opLog[i].path)
              ELSE pathExists(tfs, opLog[i].path)
        /\ LogPositions(IsMergeCall) = {}
        /\ NodeAt(tfs, Paths.skillRules) = NodeAt(instPre, Paths.skillRules)

C19_Witness ==
    /\ instPc = "failed"
    /\ opLog[Len(opLog)] = ThrowOp("copyFile", Paths.agents \o <<"a-rules.json">>)
    /\ LogPositions(IsCopy) # {}
    /\ Paths.skillRules \in DOMAIN tfs
    /\ Len(selections.commands) > 0

(***************************************************************************)
(* Vocabulary of the main flow properties                                  *)
(***************************************************************************)
InstallInvoked == instPc # "idle"

SelectionSize ==
    Len(selections.agents) + Len(selections.commands) + Len(selections.skills)

(***************************************************************************)
(* C20: main invokes install only when the Selection holds at least one    *)
(* component and the user accepted the confirmation; a run in which        *)
(* install was not invoked and that ended after the browser (nothing       *)
(* selected, declined, or interrupted) exits with status 0 and has made no *)
(* filesystem write.                                                       *)
(***************************************************************************)
C20_InstallOnlyWhenSelected ==
    /\ InstallInvoked => SelectionSize > 0
    /\ mainPc = "exited" /\ ~InstallInvoked /\ menuPc \in {"resolved", "exited"}
          => exitCode = 0 /\ opLog = <<>>

(***************************************************************************)
(* C21: the number of rule sources install reports (results.rulesFiles,    *)
(* printed by displayResults as 'Merged N rule(s)') equals the number of   *)
(* sources mergeAllRules actually merged into skill-rules.json.            *)
(***************************************************************************)
C21_ReportedCountIsMergedCount ==
    instPc = "done" /\ mrReturn.fn = "mergeAllRules"
       => Len(results.rulesFiles) = mrReturn.count

(***************************************************************************)
(* C22: discoverAll never fails: whatever stands in the source tree (a     *)
(* missing directory, or a file at the path of an agents, commands or      *)
(* skills directory), the call returns, with zero components for that      *)
(* branch only.                                                            *)
(***************************************************************************)
C22_DiscoverAllNeverFails == discPc = "discoverAll" => ~components.threw

(***************************************************************************)
(* Vocabulary of the shopping-cart properties                              *)
(***************************************************************************)
CartPromptsDone == mainPc \in {"cartSummary", "install", "exited"}

ComponentPrompts ==
    SelectSeq(prompts, LAMBDA p : p.message \in {"Select agents:", "Select commands:"})

SkillPrompts == SelectSeq(prompts, LAMBDA p : p.message = "Select skills:")

\* The categories that get a skills prompt, in the order of the prompts.
PromptedCategories ==
    SelectSeq(SortedCategories(components.skillCategories),
              LAMBDA c : Len(c.skills) > 0)

AllChoices(prompt, checked) ==
    \A j \in 1..Len(prompt.choices) : prompt.choices[j].checked = checked

(***************************************************************************)
(* C23: in the shopping-cart flow for a local installation the defaults    *)
(* are: general agents and commands checked, frontend and backend agents   *)
(* and commands unchecked, code-quality and shared skills checked,         *)
(* frontend and backend skills not checked.                                *)
(***************************************************************************)
C23_LocalCartDefaults ==
    CartPromptsDone /\ location = "local" =>
        /\ \A i \in 1..Len(ComponentPrompts) :
              \A j \in 1..Len(ComponentPrompts[i].choices) :
                  LET choice == ComponentPrompts[i].choices[j]
                  IN  choice.checked = (choice.value.category = "general")
        /\ Len(SkillPrompts) = Len(PromptedCategories)
        /\ \A i \in 1..Len(SkillPrompts) :
              /\ PromptedCategories[i].name \in {"code-quality", "shared"}
                    => AllChoices(SkillPrompts[i], TRUE)
              /\ PromptedCategories[i].name \in {"frontend", "backend"}
                    => AllChoices(SkillPrompts[i], FALSE)

\* The components the user left checked in some prompt.
CheckedValues == UNION {Range(prompts[i].answer) : i \in 1..Len(prompts)}

(***************************************************************************)
(* C24: in the shopping-cart flow the Selection passed to install is       *)
(* exactly what the user checked: an agent, command or skill is in the     *)
(* Selection iff the user checked that very component in a prompt.         *)
(***************************************************************************)
C24_SelectionIsWhatWasChecked ==
    mainPc = "install" =>
        /\ Range(selections.agents) = Range(components.agents) \cap CheckedValues
        /\ Range(selections.commands) = Range(components.commands) \cap CheckedValues
        /\ \A c \in Range(components.skillCategories) :
              c.name \in DOMAIN selections.skills
              /\ Range(selections.skills[c.name]) = Range(c.skills) \cap CheckedValues

\* ---------------------------------------------------------------------------
\* installSkill on its own: one skill, copied into the directory of its skill
\* category as install calls it (the directory is there: ensureDir ran).

\* A directory-skill that does not bear the name of its skill category.
NestedSkill(skill) == [skill EXCEPT !.name = "nested"]

SkillInputs ==
    LET found == Range(discoverAll(InstallTree, SourceDir).skills)
    IN  found \cup {NestedSkill(k) : k \in {f \in found : f.type = "directory"}}

SkillCategoryDir(skill) == join(Paths.skills, skill.skillCategory)

\* The targets of one skill: the directory of its skill category empty, with
\* another file, with an older SKILL.md or notes.txt, with a directory at
\* SKILL.md, with a file or a directory standing where the skill's name or its
\* file goes.
SkillTargets(skill) ==
    LET dir == SkillCategoryDir(skill)
        empty == WithDirs(<<>>, Prefixes(dir))
    IN  {empty,
         Put(empty, join(dir, "old.md"), FileNode(Text("old"))),
         Put(empty, join(dir, "SKILL.md"), FileNode(Garbage)),
         Put(empty, join(dir, "SKILL.md"), DirNode),
         Put(empty, join(dir, "notes.txt"), FileNode(Text("old"))),
         Put(empty, join(dir, "nested"), FileNode(Text("old"))),
         Put(empty, join(dir, "nested"), DirNode),
         Put(empty, join(dir, basename(skill.path)), DirNode)}

InstallSkillInit ==
    /\ targetDir = TargetDir
    /\ sfs \in InstallTrees
    /\ \E skill \in SkillInputs :
          /\ selections = [NoSelections EXCEPT !.skills = <<skill>>]
          /\ tfs \in SkillTargets(skill)
    /\ instPre = tfs
    /\ opLog = <<>>
    /\ results = NoResults
    /\ skillsByCategory = <<>>
    /\ instIdx = 0
    /\ instCat = 0
    /\ instPc = "installSkill"

InstallSkillCall ==
    /\ instPc = "installSkill"
    /\ LET skill == selections.skills[1]
           r == installSkill(sfs, tfs, skill, SkillCategoryDir(skill))
       IN  /\ tfs' = r.fs
           /\ opLog' = opLog \o r.ops
           /\ instPc' = IF r.threw THEN "failed" ELSE "returned"
    /\ UNCHANGED <<sfs, selections, results, skillsByCategory, instIdx, instCat,
                   instPre, dmVars, promptVars, mrVars, discVars,
                   targetDir, menuVars, mainVars>>

InitInstallSkill ==
    InstallSkillInit /\ DmIdle /\ MrIdle /\ DiscIdle /\ MenuIdle /\ MainIdle /\ PromptIdle
NextInstallSkill == InstallSkillCall
SpecInstallSkill == InitInstallSkill /\ [][NextInstallSkill]_vars

\* The tree of the source at from stands at to, and nothing else of the
\* target changed.
CopiedTo(from, to) ==
    /\ \A rel \in Below(sfs, from) :
          /\ to \o rel \in DOMAIN tfs
          /\ tfs[to \o rel] = sfs[from \o rel]
    /\ \A p \in DOMAIN tfs :
          \/ \E rel \in Below(sfs, from) : p = to \o rel
          \/ p \in DOMAIN instPre /\ tfs[p] = instPre[p]

\* C25: installSkill copies the contents of a directory-skill named as its
\* skill category straight into <skills>/<category>/ (no folder of the same
\* name inside it), copies a directory-skill of another name to
\* <skills>/<category>/<name>/, and copies a file-skill as the one file
\* <skills>/<category>/<file name>.
C25_SkillPlacement ==
    instPc = "returned" =>
        LET skill == selections.skills[1]
            dir == SkillCategoryDir(skill)
        IN  IF skill.type = "directory" /\ skill.name = skill.skillCategory
            THEN CopiedTo(skill.path, dir)
            ELSE IF skill.type = "directory"
            THEN CopiedTo(skill.path, join(dir, skill.name))
            ELSE /\ CopiedTo(skill.path, join(dir, basename(skill.path)))
                 /\ sfs[skill.path].kind = "file"

\* A directory-skill named as its category, with three files, was laid over
\* a category directory that held another file.
C25_Witness ==
    /\ instPc = "returned"
    /\ LET skill == selections.skills[1]
           dir == SkillCategoryDir(skill)
       IN  /\ skill.type = "directory"
           /\ skill.name = skill.skillCategory
           /\ Cardinality(Below(sfs, skill.path)) > 3
           /\ join(dir, "old.md") \in DOMAIN instPre
           /\ join(dir, skill.name) \notin DOMAIN tfs

\* ---------------------------------------------------------------------------
\* The rule sources install hands to mergeAllRules.

\* The parsed content of the rule source at path.
RuleSourceValue(path) == readJsonFile(sfs, path)

\* The rule sources that belong to an agent, and those that belong to a skill.
IsAgentSource(path) == \E i \in 1..Len(selections.agents) : selections.agents[i].rulesFile = path
IsFragmentSource(path) ==
    \E i \in 1..Len(selections.skills) :
        /\ selections.skills[i].type = "directory"
        /\ FragmentPath(selections.skills[i]) = path
        /\ path \in DOMAIN sfs

\* C26: the rule sources install collects for mergeAllRules are the rules
\* file of every selected agent in selection order, then the fragment path of
\* every selected directory-skill that holds a fragment, in selection order;
\* commands, file-skills and directory-skills without a fragment give none.
\* Hence the merged document agrees with the last fragment on every key the
\* fragment sets, whatever an agent's rules say there.
C26_RuleSourceOrder ==
    /\ instPc \in {"merge", "done"} =>
          /\ Len(results.rulesFiles) = Len(selections.agents) + Len(FragmentSources)
          /\ \A i \in 1..Len(results.rulesFiles) :
                IF i <= Len(selections.agents)
                THEN results.rulesFiles[i] = selections.agents[i].rulesFile
                ELSE results.rulesFiles[i] = FragmentSources[i - Len(selections.agents)]
          /\ \A i \in 1..Len(results.rulesFiles) :
                IsAgentSource(results.rulesFiles[i]) \/ IsFragmentSource(results.rulesFiles[i])
    /\ instPc = "done" /\ FragmentSources # <<>> =>
          LET last == RuleSourceValue(FragmentSources[Len(FragmentSources)])
              document == readJsonFile(tfs, Paths.skillRules)
          IN  Truthy(last) => deepMerge(document, last) = document

\* Both agents, a command, a file-skill and both directory-skills were
\* installed; both directory-skills hold a fragment, and the later fragment
\* sets the key "reviewer" that the reviewer agent's rules set too.
C26_Witness ==
    /\ instPc = "done"
    /\ Len(selections.agents) = 2
    /\ Len(selections.commands) > 0
    /\ \E i \in 1..Len(selections.skills) : selections.skills[i].type = "file"
    /\ Len(FragmentSources) = 2
    /\ \E i \in 1..Len(selections.agents) :
          Get(RuleSourceValue(selections.agents[i].rulesFile), "reviewer").t = "obj"
    /\ Get(readJsonFile(tfs, Paths.skillRules), "reviewer") = JBool(FALSE)

\* ---------------------------------------------------------------------------
\* What discoverSkills reports, told from the source tree alone.

\* The subdirectories of <category>/skills.
SkillCategoryDirs(category) ==
    LET skillsDir == join(CategoryDir(category), "skills")
    IN  {d \in DOMAIN sfs : Len(d) = Len(skillsDir) + 1 /\ dirname(d) = skillsDir
                            /\ sfs[d].kind = "dir"}

\* The immediate .md files of dir other than the README.
SkillFilesOf(dir) ==
    {f \in DOMAIN sfs : /\ Len(f) = Len(dir) + 1
                        /\ dirname(f) = dir
                        /\ sfs[f].kind = "file"
                        /\ EndsWithMd(basename(f))
                        /\ basename(f) # "README.md"}

\* The positions of the reported skills of one skill category directory.
ReportedFor(category, dir) ==
    {i \in 1..Len(components.skills) :
        /\ components.skills[i].category = category
        /\ components.skills[i].skillCategory = basename(dir)}

\* C27: discoverSkills reports a subdirectory D of <category>/skills as
\* exactly one directory-skill (name D, skill category D) if and only if D
\* contains SKILL.md; otherwise each immediate .md file of D other than
\* README.md is one file-skill of skill category D and nothing else in D
\* (nested directories included) is reported. No reported skill is the README.
C27_SkillsAsFound ==
    discPc = "discoverSkills" /\ ~components.threw =>
        /\ \A category \in Range(Categories) :
              \A dir \in SkillCategoryDirs(category) :
                 LET reported == ReportedFor(category, dir)
                 IN  IF join(dir, "SKILL.md") \in DOMAIN sfs
                     THEN /\ Cardinality(reported) = 1
                          /\ \A i \in reported :
                                /\ components.skills[i].type = "directory"
                                /\ components.skills[i].name = basename(dir)
                                /\ components.skills[i].path = dir
                     ELSE /\ Cardinality(reported) = Cardinality(SkillFilesOf(dir))
                          /\ \A i \in reported : components.skills[i].type = "file"
                          /\ {components.skills[i].path : i \in reported} = SkillFilesOf(dir)
        /\ \A i \in 1..Len(components.skills) :
              /\ basename(components.skills[i].path) # "README.md"
              /\ \E dir \in SkillCategoryDirs(components.skills[i].category) :
                    basename(dir) = components.skills[i].skillCategory

\* ---------------------------------------------------------------------------
\* The breadcrumb of interactiveMenu.

\* The item under the cursor is a folder, or a leaf.
FolderUnderCursor ==
    /\ HasItem(currentItems, selectedIndex)
    /\ ItemAt(currentItems, selectedIndex).type = "folder"
LeafUnderCursor ==
    /\ HasItem(currentItems, selectedIndex)
    /\ ItemAt(currentItems, selectedIndex).type = "file"

\* The current child list is that of the last folder of the breadcrumb.
ShowsLastFolder ==
    \/ Len(menuPath) = 0 /\ currentItems = menuRoot.children
    \/ Len(menuPath) > 0 /\ currentItems = menuPath[Len(menuPath)].children

\* C28: after every sequence of keys the current child list is the children
\* of the last folder on the breadcrumb, or the root's children when the
\* breadcrumb is empty; Enter on a folder pushes exactly that folder and sets
\* the cursor to 0; 'b' pops exactly one entry and shows the parent's
\* children; Enter on a leaf and 'b' at the root change neither the
\* breadcrumb, the child list, the cursor nor the marks.
C28_BreadcrumbTracksChildList ==
    /\ [](menuPc # "idle" => ShowsLastFolder)
    /\ [][/\ (KeyEnter /\ FolderUnderCursor) =>
                /\ menuPath' = menuPath \o <<ItemAt(currentItems, selectedIndex)>>
                /\ selectedIndex' = 0
                /\ currentItems' = ItemAt(currentItems, selectedIndex).children
          /\ (KeyBack /\ Len(menuPath) > 0) =>
                /\ Len(menuPath') = Len(menuPath) - 1
                /\ menuPath' \o <<menuPath[Len(menuPath)]>> = menuPath
                /\ currentItems' = (IF Len(menuPath) = 1 THEN menuRoot.children
                                    ELSE menuPath[Len(menuPath) - 1].children)
          /\ ((KeyEnter /\ LeafUnderCursor) \/ (KeyBack /\ Len(menuPath) = 0)) =>
                UNCHANGED <<menuPath, currentItems, selectedIndex, selectedItems>>
       ]_vars

\* Two folders deep, with a mark on an item of the list shown and a mark on
\* an item of another folder: folders were entered, left and entered again.
C28_Witness ==
    /\ menuPc = "open"
    /\ Len(menuPath) = 2
    /\ ShowsLastFolder
    /\ \E id \in selectedItems : \E i \in 1..Len(currentItems) : currentItems[i].id = id
    /\ \E id \in selectedItems : \A i \in 1..Len(currentItems) : currentItems[i].id # id

\* ---------------------------------------------------------------------------
\* C29: for a global install through the browser, no component whose category
\* is frontend or backend is part of the Selection handed to install: the
\* tree offers the general branch only, so only general components are
\* installed.
SelectedComponents ==
    Range(selections.agents) \cup Range(selections.commands) \cup Range(selections.skills)

C29_GlobalInstallsGeneralOnly ==
    mainPc = "mapped" /\ location = "global" =>
        \A c \in SelectedComponents : c.category = "general"

\* ---------------------------------------------------------------------------
\* mergeAllRules called twice with the same list, as two installs of one
\* selection do: mrPre keeps the document as the first call left it.
MergeAllRulesAgain ==
    /\ mrPc = "returned"
    /\ mrReturn.fn = "mergeAllRules"
    /\ LET r == mergeAllRules(sfs, tfs, SkillRulesPath, mrSources)
       IN  /\ tfs' = r.fs
           /\ opLog' = opLog \o r.ops
           /\ mrReturn' = [fn |-> "mergeAllRules", threw |-> r.threw,
                           count |-> r.count]
    /\ mrPre' = NodeAt(tfs, SkillRulesPath)
    /\ mrPc' = "again"
    /\ UNCHANGED <<sfs, mrSources, dmVars, promptVars, discVars, instVars, menuVars, mainVars>>

InitRulesTwice == InitRules
NextRulesTwice ==
    \/ MergeAllRulesCall
    \/ MergeAllRulesAgain
SpecRulesTwice == InitRulesTwice /\ [][NextRulesTwice]_vars

\* C30: mergeAllRules called a second time with the same list, on the file
\* the first call left, leaves the document as it was: the same text at
\* skill-rules.json, and nothing else of the target touched.
C30_MergeIdempotent ==
    mrPc = "again" =>
        /\ NodeAt(tfs, SkillRulesPath) = mrPre
        /\ \A p \in DOMAIN tfs : p # SkillRulesPath => tfs[p] = DirNode

\* The second call wrote, on a document the first call had written from an
\* existing one and three sources, two of which set the same key to an
\* object and one to a scalar.
C30_Witness ==
    /\ mrPc = "again"
    /\ ~mrReturn.threw
    /\ mrReturn.count = 3
    /\ Len(opLog) = 2
    /\ mrPre.kind = "file"
    /\ mrPre.content.type = "json"
    /\ \E i, j \in 1..Len(mrSources) :
          /\ i < j
          /\ Get(readJsonFile(sfs, mrSources[i]), "a").t = "obj"
          /\ Get(readJsonFile(sfs, mrSources[j]), "a").t = "num"

====
